---------------------------- MODULE Spec2Model ----------------------------
(***************************************************************************)
(* A model of the Gleam source formatter, compiler-core/src/format.rs.     *)
(*                                                                         *)
(* The formatter walks the module AST left to right and threads the source *)
(* trivia (comments, doc comments, module comments, blank-line offsets)    *)
(* back into the document it builds.  The trivia live in four cursors of   *)
(* the Formatter, which the pop_* methods advance.                         *)
(*                                                                         *)
(* Conventions of the model                                                *)
(*   - a Comment is a record [start, content]; the content of the comment  *)
(*     that starts at byte offset o is the source text there, written o;   *)
(*   - an Option<&str> is Some(c) or None, as records;                     *)
(*   - a Document is the sequence of its leaves in printing order, the     *)
(*     tree structure kept as bracket tokens (group/nest/force_break ...   *)
(*     end), see the section "Documents";                                  *)
(*   - a string literal is the sequence of its characters.                 *)
(*                                                                         *)
(* The module holds several specifications over the same variables, one    *)
(* per group of operations:                                                *)
(*   SpecPop     the pop_* operations called with arbitrary limits         *)
(*   SpecLiteral int() applied to integer literals                         *)
(*   SpecExpr    binary operators, clause guards and pipelines lowered     *)
(*   SpecModule  module() run over modules with trivia around definitions  *)
(*   SpecBody    statements, case clauses and constructors with blank lines*)
(*   SpecFloat   float() applied to float literals                         *)
(*   SpecFormatTwice  the text float() printed, formatted again            *)
(*   SpecRender  calls, lists, tuples and bit arrays lowered and laid out  *)
(*   SpecDefinition   targeted_definition() on one definition with trivia  *)
(*   SpecPretty  pretty(): parse, lower the module, print                  *)
(*   SpecRun     the runs of comments popped in front of a construct, at   *)
(*               the end of the module and by doc_comments()               *)
(*   SpecCanonical    int() and float() applied to their own output        *)
(*   SpecImport  an import with unqualified items, in two source orders    *)
(*   SpecCall    a call with one or two arguments and comments inside      *)
(***************************************************************************)
EXTENDS Integers, Sequences, FiniteSets, TLC

VARIABLES
    table,               \* the Intermediate the Formatter borrows from
    comments,            \* Formatter.comments         (cursor)
    doc_comments,        \* Formatter.doc_comments     (cursor)
    module_comments,     \* Formatter.module_comments  (cursor)
    empty_lines,         \* Formatter.empty_lines      (cursor)
    input,               \* the argument of the operation under way
    pc,                  \* position of the operation under way
    documents,           \* module(): the Vec `documents`
    previous_was_import, \* module(): the flag of the same name
    out,                 \* the value the operation returned
    last,                \* the last pop_* call: operation, limit, result
    seen                 \* per pop_* operation, the largest limit used so far

vars == <<table, comments, doc_comments, module_comments, empty_lines,
          input, pc, documents, previous_was_import, out, last, seen>>

-----------------------------------------------------------------------------
(* Bounds of the model *)

\* SpecPop: the byte offsets of its sources are 0..MaxPopOffset
MaxPopOffset == 1

\* SpecLiteral: the longest run of digits of an integer literal
MaxDigits == 7

\* SpecExpr: the most expressions a pipeline has
MaxStages == 3

\* SpecModule: the most pieces of trivia in the source of a module
MaxTrivia == 2

\* SpecBody: the most statements, clauses or constructors of a body
MaxItems == 3

\* u32::MAX, the limit module() pops the remaining comments with.  It stands
\* for 4294967295: no offset exceeds it, and TLC's integers end at 2^31 - 1
U32Max == 2147483647

-----------------------------------------------------------------------------
(* Generic helpers on sequences *)

Range(s) == {s[i] : i \in DOMAIN s}

Max(a, b) == IF a >= b THEN a ELSE b

\* s[from+1 .. Len(s)]: the slice s.get(from..)
DropFirst(s, from) == SubSeq(s, from + 1, Len(s))

\* s[1 .. n]: the slice s.get(0..n)
TakeFirst(s, n) == SubSeq(s, 1, n)

IsSuffix(s, t) ==
    /\ Len(s) <= Len(t)
    /\ s = DropFirst(t, Len(t) - Len(s))

\* the increasing sequence of the members of a set of integers
RECURSIVE SortedSeq(_)
SortedSeq(S) ==
    IF S = {} THEN <<>>
    ELSE LET m == CHOOSE x \in S : \A y \in S : x <= y
         IN <<m>> \o SortedSeq(S \ {m})

-----------------------------------------------------------------------------
(* Trivia: parse::extra::Comment and Option<&str> *)

\* Comment::from((span, src)): the comment that starts at byte `start`
Comment(start) == [start |-> start, content |-> start]

Some(c) == [is_some |-> TRUE, content |-> c]
None == [is_some |-> FALSE, content |-> 0]

\* mutant of EndBefore: the scan stops at the first offset >= limit
RECURSIVE EndBefore_StopsAtLimit(_, _)
EndBefore_StopsAtLimit(offsets, limit) ==
    IF offsets = <<>> \/ Head(offsets) >= limit THEN 0
    ELSE 1 + EndBefore_StopsAtLimit(Tail(offsets), limit)

\* Iterator::position(pred) . unwrap_or(len), as the count of leading items
\* of `offsets` that are not > limit (the scan stops at the first one that is)
RECURSIVE EndBefore(_, _)
EndBefore(offsets, limit) ==
    IF offsets = <<>> \/ Head(offsets) > limit THEN 0
    ELSE 1 + EndBefore(Tail(offsets), limit)

\* itertools coalesce of (i, i) pairs: a run a, a+1, a+2 ... of blank-line
\* offsets is compacted into one item, the start of the run
Coalesce(lines) ==
    SelectSeq([i \in DOMAIN lines |->
                  [keep |-> (i = 1 \/ lines[i - 1] + 1 # lines[i]),
                   start |-> lines[i]]],
              LAMBDA x : x.keep)

\* itertools merge_by(a, b, |x, y| x.0 < y.0): take from a while its head is
\* strictly smaller, else from b
RECURSIVE MergeBy(_, _)
MergeBy(a, b) ==
    IF a = <<>> THEN b
    ELSE IF b = <<>> THEN a
    ELSE IF Head(a).start < Head(b).start
         THEN <<Head(a)>> \o MergeBy(Tail(a), b)
         ELSE <<Head(b)>> \o MergeBy(a, Tail(b))

\* skip_while(|x| x.is_none())
RECURSIVE SkipWhileNone(_)
SkipWhileNone(s) ==
    IF s = <<>> \/ Head(s).item.is_some THEN s
    ELSE SkipWhileNone(Tail(s))

\* comments_before(comments, empty_lines, limit, retain_empty_lines):
\* the tuple (popped, rest of the comments, rest of the empty lines)
comments_before(cs, els, limit, retain_empty_lines) ==
    LET end_comments == EndBefore([i \in DOMAIN cs |-> cs[i].start], limit)
        end_empty_lines == EndBefore(els, limit)
        popped_comments ==
            [i \in 1..end_comments |->
                [start |-> cs[i].start, item |-> Some(cs[i].content)]]
        retained == IF retain_empty_lines THEN els ELSE <<>>
        \* .get(0..end_empty_lines).unwrap_or(&[])
        slice == IF end_empty_lines <= Len(retained)
                 THEN TakeFirst(retained, end_empty_lines) ELSE <<>>
        coalesced == Coalesce(slice)
        popped_empty_lines ==
            [i \in DOMAIN coalesced |->
                [start |-> coalesced[i].start, item |-> None]]
        merged == SkipWhileNone(MergeBy(popped_comments, popped_empty_lines))
    IN  [popped |-> [i \in DOMAIN merged |-> merged[i].item],
         rest |-> DropFirst(cs, end_comments),
         empty_lines |-> DropFirst(els, end_empty_lines)]

-----------------------------------------------------------------------------
(* The Formatter: its four cursors, and the pop_* methods.  A method that   *)
(* takes &mut self is an operator from the Formatter value `self` to the    *)
(* record of the value it returns and the Formatter it leaves.             *)

Formatter(cs, dcs, mcs, els) ==
    [comments |-> cs, doc_comments |-> dcs, module_comments |-> mcs,
     empty_lines |-> els]

\* Formatter::with_comments(extra)
with_comments(extra) ==
    Formatter(extra.comments, extra.doc_comments, extra.module_comments,
              extra.empty_lines)

\* the Formatter value held in the variables
Self == Formatter(comments, doc_comments, module_comments, empty_lines)

\* Formatter::any_comments(limit)
any_comments(self, limit) ==
    IF self.comments = <<>> THEN FALSE
    ELSE Head(self.comments).start < limit

\* Formatter::pop_comments(limit)
pop_comments(self, limit) ==
    LET r == comments_before(self.comments, self.empty_lines, limit, TRUE)
    IN  [ret |-> r.popped,
         self |-> [self EXCEPT !.comments = r.rest,
                               !.empty_lines = r.empty_lines]]

\* mutant of pop_doc_comments: the blank lines are retained in the run
pop_doc_comments_Retains(self, limit) ==
    LET r == comments_before(self.doc_comments, self.empty_lines, limit, TRUE)
    IN  [ret |-> r.popped,
         self |-> [self EXCEPT !.doc_comments = r.rest,
                               !.empty_lines = r.empty_lines]]

\* Formatter::pop_doc_comments(limit)
pop_doc_comments(self, limit) ==
    LET r == comments_before(self.doc_comments, self.empty_lines, limit, FALSE)
    IN  [ret |-> r.popped,
         self |-> [self EXCEPT !.doc_comments = r.rest,
                               !.empty_lines = r.empty_lines]]

\* mutant of pop_empty_lines: reports a removal whenever the cursor held a
\* blank line
pop_empty_lines_AnyLine(self, limit) ==
    LET end == EndBefore(self.empty_lines, limit)
    IN  [ret |-> self.empty_lines # <<>>,
         self |-> [self EXCEPT !.empty_lines = DropFirst(self.empty_lines, end)]]

\* mutant of pop_empty_lines: keeps the slice ..end instead of end..
pop_empty_lines_KeepsHead(self, limit) ==
    LET end == EndBefore(self.empty_lines, limit)
    IN  [ret |-> end # 0,
         self |-> [self EXCEPT !.empty_lines = TakeFirst(self.empty_lines, end)]]

\* Formatter::pop_empty_lines(limit)
pop_empty_lines(self, limit) ==
    LET end == EndBefore(self.empty_lines, limit)
    IN  [ret |-> end # 0,
         self |-> [self EXCEPT !.empty_lines = DropFirst(self.empty_lines, end)]]

-----------------------------------------------------------------------------
(* Documents.  The Document algebra lives in pretty.rs; format.rs only      *)
(* builds documents.  A document is modelled as the sequence of its leaves  *)
(* in printing order; a wrapper (group, nest, force_break) is kept as a     *)
(* pair of bracket tokens around the leaves it wraps.                       *)

Tok(t, s, n) == [t |-> t, s |-> s, n |-> n]

nil == <<>>

\* a literal of the formatter's own: "import ", "|> ", "{" ...
Text(s) == <<Tok("text", s, 0)>>

\* the printed form of the AST leaf that starts at byte `id`
Leaf(s, id) == <<Tok("leaf", s, id)>>

\* lines(n): n newlines, that is n - 1 blank lines; line() is lines(1)
lines(n) == <<Tok("line", "", n)>>
line == lines(1)

\* break_(broken, unbroken) and flex_break(broken, unbroken)
break_(broken, unbroken) ==
    <<[t |-> "break", s |-> broken, n |-> 0, unbroken |-> unbroken]>>
flex_break(broken, unbroken) ==
    <<[t |-> "flex_break", s |-> broken, n |-> 0, unbroken |-> unbroken]>>

End == <<Tok("end", "", 0)>>
group(doc) == <<Tok("group", "", 0)>> \o doc \o End
nest(doc) == <<Tok("nest", "", 0)>> \o doc \o End
force_break(doc) == <<Tok("force_break", "", 0)>> \o doc \o End

\* a comment line: prefix.to_doc().append(Document::String(content))
CommentDoc(prefix, content) == <<Tok("comment", prefix, content)>>

\* what is left of a lowering that hit panic! or unreachable!: the process
\* aborts and no document is returned (see Aborted)
Panic(message) == <<Tok("panic", message, 0)>>

Aborted(doc) == \E i \in DOMAIN doc : doc[i].t = "panic"

\* concat(docs)
RECURSIVE concat(_)
concat(docs) ==
    IF docs = <<>> THEN nil ELSE Head(docs) \o concat(Tail(docs))

\* join(docs, separator)
RECURSIVE join(_, _)
join(docs, separator) ==
    IF docs = <<>> THEN nil
    ELSE IF Len(docs) = 1 THEN Head(docs)
    ELSE Head(docs) \o separator \o join(Tail(docs), separator)

\* Document::is_empty
is_empty(doc) == doc = nil

\* the value of a lowering method: the document and the Formatter it leaves
R(doc, self) == [doc |-> doc, self |-> self]

-----------------------------------------------------------------------------
(* Printing a popped run of comments *)

\* mutant of PrintedFrom: a marker met by the loop prints a blank line of
\* its own
RECURSIVE PrintedFrom_BlankPerMarker(_, _, _)
PrintedFrom_BlankPerMarker(cs, i, trailing_newline) ==
    IF i > Len(cs) THEN nil
    ELSE IF ~cs[i].is_some
    THEN lines(2) \o PrintedFrom_BlankPerMarker(cs, i + 1, trailing_newline)
    ELSE CommentDoc("//", cs[i].content) \o
         (IF i + 1 > Len(cs)
          THEN (IF trailing_newline THEN line ELSE nil)
          ELSE IF cs[i + 1].is_some
          THEN line \o PrintedFrom_BlankPerMarker(cs, i + 1, trailing_newline)
          ELSE (IF i + 2 <= Len(cs) THEN lines(2)
                ELSE IF trailing_newline THEN lines(2) ELSE nil)
               \o PrintedFrom_BlankPerMarker(cs, i + 2, trailing_newline))

\* the loop of printed_comments from item i on
RECURSIVE PrintedFrom(_, _, _)
PrintedFrom(cs, i, trailing_newline) ==
    IF i > Len(cs) THEN nil
    ELSE IF ~cs[i].is_some THEN PrintedFrom(cs, i + 1, trailing_newline)
    ELSE CommentDoc("//", cs[i].content) \o
         (IF i + 1 > Len(cs)
          THEN \* We've reached the end, there are no more lines
               (IF trailing_newline THEN line ELSE nil)
          ELSE IF cs[i + 1].is_some
          THEN \* Next line is a comment
               line \o PrintedFrom(cs, i + 1, trailing_newline)
          ELSE \* Next line is empty
               (IF i + 2 <= Len(cs) THEN lines(2)
                ELSE IF trailing_newline THEN lines(2) ELSE nil)
               \o PrintedFrom(cs, i + 2, trailing_newline))

\* mutant of printed_comments: the blank line after the last comment is
\* kept whatever trailing_newline is
printed_comments_KeepsBlank(cs, trailing_newline) ==
    IF cs = <<>> THEN [is_some |-> FALSE, doc |-> nil]
    ELSE [is_some |-> TRUE,
          doc |-> IF trailing_newline
                  THEN force_break(PrintedFrom(cs, 1, TRUE))
                  ELSE IF ~cs[Len(cs)].is_some
                       THEN PrintedFrom(cs, 1, FALSE) \o lines(2)
                       ELSE PrintedFrom(cs, 1, FALSE)]

\* printed_comments(comments, trailing_newline): Option<Document>
printed_comments(cs, trailing_newline) ==
    IF cs = <<>> THEN [is_some |-> FALSE, doc |-> nil]
    ELSE [is_some |-> TRUE,
          doc |-> IF trailing_newline
                  THEN force_break(PrintedFrom(cs, 1, TRUE))
                  ELSE PrintedFrom(cs, 1, FALSE)]

\* mutant of commented: the comments are printed after the document
commented_After(doc, cs) ==
    LET printed == printed_comments(cs, TRUE)
    IN  IF printed.is_some THEN group(doc) \o printed.doc ELSE doc

\* commented(doc, comments)
commented(doc, cs) ==
    LET printed == printed_comments(cs, TRUE)
    IN  IF printed.is_some THEN printed.doc \o group(doc) ELSE doc

\* Formatter::doc_comments(limit)
doc_comments_(self, limit) ==
    LET p == pop_doc_comments(self, limit)
        docs == [i \in DOMAIN p.ret |->
                    IF p.ret[i].is_some
                    THEN CommentDoc("///", p.ret[i].content)
                    ELSE Panic("empty lines dropped by pop_doc_comments")]
    IN  IF p.ret = <<>> THEN R(nil, p.self)
        ELSE R(force_break(join(docs, line) \o line), p.self)

-----------------------------------------------------------------------------
(* Literals.  A string is the sequence of its characters. *)

StartsWith(value, prefix) ==
    /\ Len(value) >= Len(prefix)
    /\ SubSeq(value, 1, Len(prefix)) = prefix

Count(value, ch) == Cardinality({i \in DOMAIN value : value[i] = ch})

Reverse(value) == [i \in DOMAIN value |-> value[Len(value) + 1 - i]]

\* Document::EcoString / Document::String: a computed string
Str(chars) == <<[t |-> "string", s |-> "", n |-> 0, chars |-> chars]>>

RECURSIVE UnderscoreLoop(_, _, _, _, _)

\* mutant of UnderscoreLoop: the minus sign is treated as a digit
UnderscoreLoop_AfterMinus(rev, i, j, insert_underscores, len) ==
    IF rev = <<>> THEN <<>>
    ELSE LET ch == Head(rev) IN
         IF ch = "_"
         THEN UnderscoreLoop(Tail(rev), i + 1, j, insert_underscores, len)
         ELSE (IF insert_underscores /\ i # 0 /\ i < len /\ j % 3 = 0
               THEN <<"_">> ELSE <<>>)
              \o <<ch>>
              \o UnderscoreLoop(Tail(rev), i + 1, j + 1, insert_underscores, len)

\* the loop of underscore_integer_string over value.chars().rev(): `rev` is
\* what is left of the reversed string, i the index of its head, j the
\* number of characters pushed so far; the value is new_value, reversed
UnderscoreLoop(rev, i, j, insert_underscores, len) ==
    IF rev = <<>> THEN <<>>
    ELSE LET ch == Head(rev) IN
         IF ch = "_"
         THEN UnderscoreLoop(Tail(rev), i + 1, j, insert_underscores, len)
         ELSE (IF insert_underscores /\ i # 0 /\ ch # "-" /\ i < len
                  /\ j % 3 = 0
               THEN <<"_">> ELSE <<>>)
              \o <<ch>>
              \o UnderscoreLoop(Tail(rev), i + 1, j + 1, insert_underscores, len)

\* Formatter::underscore_integer_string(value), as the string it prints
underscore_integer_string(value) ==
    LET len == Len(value)
        underscore_ch_cnt == Count(value, "_")
        reformat_watershed == IF StartsWith(value, <<"-">>) THEN 6 ELSE 5
        insert_underscores == (len - underscore_ch_cnt) >= reformat_watershed
    IN  Reverse(UnderscoreLoop(Reverse(value), 0, 0, insert_underscores, len))

\* Formatter::int(value), as the string it prints
int(value) ==
    IF \/ StartsWith(value, <<"0", "x">>)
       \/ StartsWith(value, <<"0", "b">>)
       \/ StartsWith(value, <<"0", "o">>)
    THEN value
    ELSE underscore_integer_string(value)

-----------------------------------------------------------------------------
(* The AST (ast.rs, produced by the parser).  A node is a record with its   *)
(* kind, its location [start, end) and the fields of its variant.          *)

SrcSpan(start, end) == [start |-> start, end |-> end]

CAPTURE_VARIABLE == "gleam@capture_variable"

Var(name, at) == [kind |-> "Var", name |-> name, location |-> SrcSpan(at, at + 1)]

Placeholder(at) == [kind |-> "Placeholder", location |-> SrcSpan(at, at + 1)]

IntLit(value, at) ==
    [kind |-> "Int", value |-> value, location |-> SrcSpan(at, at + 1)]

CallArg(label, value, start) ==
    [label |-> label, value |-> value,
     location |-> SrcSpan(start, value.location.end)]

Call(fun, arguments, end) ==
    [kind |-> "Call", fun |-> fun, arguments |-> arguments,
     location |-> SrcSpan(fun.location.start, end)]

BinOp(name, left, right) ==
    [kind |-> "BinOp", name |-> name, left |-> left, right |-> right,
     location |-> SrcSpan(left.location.start, right.location.end)]

PipeLine(expressions) ==
    [kind |-> "PipeLine", expressions |-> expressions,
     location |-> SrcSpan(expressions[1].location.start,
                          expressions[Len(expressions)].location.end)]

Expression(expression) ==
    [kind |-> "Expression", expression |-> expression,
     location |-> expression.location]

\* a capture: fn(_capture) { body }, written f(_, ...) in the source
Capture(body, start, end) ==
    [kind |-> "Fn", is_capture |-> TRUE, arguments |-> <<>>, body |-> body,
     location |-> SrcSpan(start, end)]

Block(statements, start, end) ==
    [kind |-> "Block", statements |-> statements,
     location |-> SrcSpan(start, end)]

Variable(name, at) ==
    [kind |-> "Variable", name |-> name, location |-> SrcSpan(at, at + 1)]

Assignment(pattern, value, start) ==
    [kind |-> "Assignment", pattern |-> pattern, value |-> value,
     location |-> SrcSpan(start, value.location.end)]

Use(assignments, call, start) ==
    [kind |-> "Use", assignments |-> assignments, call |-> call,
     location |-> SrcSpan(start, call.location.end)]

\* a clause: `pattern` holds one pattern per subject
Clause(pattern, then, start) ==
    [pattern |-> pattern, alternative_patterns |-> <<>>, then |-> then,
     location |-> SrcSpan(start, then.location.end)]

Case(subjects, clauses, start, end) ==
    [kind |-> "Case", subjects |-> subjects, clauses |-> clauses,
     location |-> SrcSpan(start, end)]

\* Option<&UntypedExpr>::None, the tail of a list without one
NoTail == [kind |-> "None"]

List(elements, tail, start, end) ==
    [kind |-> "List", elements |-> elements, tail |-> tail,
     location |-> SrcSpan(start, end)]

Tuple(elems, start, end) ==
    [kind |-> "Tuple", elems |-> elems, location |-> SrcSpan(start, end)]

\* a bit array segment without options
BitArraySegment(value) ==
    [value |-> value, options |-> <<>>, location |-> value.location]

BitArray(segments, start, end) ==
    [kind |-> "BitArray", segments |-> segments,
     location |-> SrcSpan(start, end)]

\* Constant::Int, Constant::List and Constant::Tuple
ConstantInt(value) == [kind |-> "Int", value |-> value]
ConstantList(elements) == [kind |-> "List", elements |-> elements]
ConstantTuple(elements) == [kind |-> "Tuple", elements |-> elements]
ConstantBitArray(segments) == [kind |-> "BitArray", segments |-> segments]

\* BitArraySegment of a constant, without options
ConstantSegment(value) == [value |-> value]

\* Pattern::Int and Pattern::BitArray; the field enum tells them from the
\* expressions of the same name
PatternInt(value, at) ==
    [enum |-> "Pattern", kind |-> "Int", value |-> value,
     location |-> SrcSpan(at, at + 1)]
PatternBitArray(segments, start, end) ==
    [enum |-> "Pattern", kind |-> "BitArray", segments |-> segments,
     location |-> SrcSpan(start, end)]

\* a constructor argument: the type it holds
RecordConstructorArg(type, start) ==
    [label |-> "", ast |-> type, location |-> SrcSpan(start, start + 1)]

\* type_::Deprecation
NotDeprecated == [kind |-> "NotDeprecated"]
Deprecated(message) == [kind |-> "Deprecated", message |-> message]

\* Option<(EcoString, EcoString)>: the module and function of an external
NoExternal == [is_some |-> FALSE]
External(module_, function) ==
    [is_some |-> TRUE, module |-> module_, function |-> function]

RecordConstructor(name, arguments, start, end) ==
    [name |-> name, arguments |-> arguments, location |-> SrcSpan(start, end),
     deprecation |-> NotDeprecated]

\* Definition::CustomType: location spans the head, end_position is the `}`
CustomType(name, constructors, start, end_position) ==
    [kind |-> "CustomType", name |-> name, constructors |-> constructors,
     location |-> SrcSpan(start, start + 1), end_position |-> end_position,
     deprecation |-> NotDeprecated]

\* Definition::Function: location spans the head, end_position is the `}`
Function(name, body, start, end_position) ==
    [kind |-> "Function", name |-> name, body |-> body,
     location |-> SrcSpan(start, start + 1), end_position |-> end_position,
     deprecation |-> NotDeprecated, external_erlang |-> NoExternal,
     external_javascript |-> NoExternal]

\* Definition::TypeAlias, private and without parameters
TypeAlias(alias, type_ast_, start) ==
    [kind |-> "TypeAlias", alias |-> alias, type_ast |-> type_ast_,
     location |-> SrcSpan(start, start + 1), deprecation |-> NotDeprecated]

\* Option<EcoString>::None for a name; a name is the sequence of its bytes
NoName == [is_some |-> FALSE, content |-> <<>>]

\* UnqualifiedImport { name, as_name }
UnqualifiedImport(name, as_name) == [name |-> name, as_name |-> as_name]

\* Definition::Import without unqualified items and without `as`
Import(module_, start) ==
    [kind |-> "Import", module |-> module_,
     unqualified_values |-> <<>>, unqualified_types |-> <<>>,
     as_name |-> NoName,
     location |-> SrcSpan(start, start + 1)]

\* TargetedDefinition without a target
TargetedDefinition(definition_) == [target |-> "None", definition |-> definition_]

\* UntypedExpr::start_byte_index (ast/untyped.rs): where the text of the
\* expression starts; every expression of the model starts at its location
start_byte_index(e) == e.location.start

\* BinOp::precedence (ast.rs)
precedence(name) ==
    CASE name = "Or" -> 1
      [] name = "And" -> 2
      [] name \in {"Eq", "NotEq"} -> 3
      [] name \in {"LtInt", "LtEqInt", "LtFloat", "LtEqFloat",
                   "GtEqInt", "GtInt", "GtEqFloat", "GtFloat"} -> 4
      [] name = "Concatenate" -> 5
      [] name \in {"AddInt", "AddFloat", "SubInt", "SubFloat"} -> 7
      [] name \in {"MultInt", "MultFloat", "DivInt", "DivFloat",
                   "RemainderInt"} -> 8

U8Max == 255

\* UntypedExpr::binop_precedence (ast/untyped.rs)
binop_precedence(e) ==
    CASE e.kind = "BinOp" -> precedence(e.name)
      [] e.kind = "PipeLine" -> 5
      [] OTHER -> U8Max

\* u8 subtraction
U8Sub(a, b) == (a - b + 256) % 256

\* impl Documentable for &BinOp
BinOpDoc(name) ==
    CASE name = "And" -> Text(" && ")
      [] name = "Or" -> Text(" || ")
      [] name = "LtInt" -> Text(" < ")
      [] name = "LtEqInt" -> Text(" <= ")
      [] name = "LtFloat" -> Text(" <. ")
      [] name = "LtEqFloat" -> Text(" <=. ")
      [] name = "Eq" -> Text(" == ")
      [] name = "NotEq" -> Text(" != ")
      [] name = "GtEqInt" -> Text(" >= ")
      [] name = "GtInt" -> Text(" > ")
      [] name = "GtEqFloat" -> Text(" >=. ")
      [] name = "GtFloat" -> Text(" >. ")
      [] name = "AddInt" -> Text(" + ")
      [] name = "AddFloat" -> Text(" +. ")
      [] name = "SubInt" -> Text(" - ")
      [] name = "SubFloat" -> Text(" -. ")
      [] name = "MultInt" -> Text(" * ")
      [] name = "MultFloat" -> Text(" *. ")
      [] name = "DivInt" -> Text(" / ")
      [] name = "DivFloat" -> Text(" /. ")
      [] name = "RemainderInt" -> Text(" % ")
      [] name = "Concatenate" -> Text(" <> ")

\* is_breakable_expr(expr)
is_breakable_expr(e) ==
    e.kind \in {"Fn", "Block", "Call", "Case", "List", "Tuple", "BitArray"}

\* UntypedExpr::is_simple_constant (ast/untyped.rs) and Constant::is_simple
\* (ast/constant.rs): numbers, strings, bare identifiers, and the lists and
\* tuples of those
RECURSIVE is_simple_constant(_)
is_simple_constant(e) ==
    CASE e.kind \in {"Int", "Float", "String", "Var"} -> TRUE
      [] e.kind = "List" ->
           /\ \A i \in DOMAIN e.elements : is_simple_constant(e.elements[i])
           /\ ("tail" \in DOMAIN e => e.tail.kind = "None")
      [] e.kind = "Tuple" ->
           IF "elems" \in DOMAIN e
           THEN \A i \in DOMAIN e.elems : is_simple_constant(e.elems[i])
           ELSE \A i \in DOMAIN e.elements : is_simple_constant(e.elements[i])
      [] OTHER -> FALSE

\* CallArg::is_capture_hole (ast.rs)
is_capture_hole(arg) ==
    arg.value.kind = "Var" /\ arg.value.name = CAPTURE_VARIABLE

\* Statement::is_placeholder (ast.rs)
is_placeholder(statement) ==
    statement.kind = "Expression" /\ statement.expression.kind = "Placeholder"

-----------------------------------------------------------------------------
(* Wrappers of format.rs *)

\* break_block(doc)
break_block(doc) ==
    force_break(Text("{") \o nest(line \o doc) \o line \o Text("}"))

\* wrap_block(doc)
wrap_block(doc) ==
    nest(break_("{", "{ ") \o doc) \o break_("", " ") \o Text("}")

\* mutant of wrap_args: the comma after the last argument is always printed
wrap_args_AlwaysComma(args) ==
    IF args = <<>> THEN Text("()")
    ELSE nest(break_("(", "(") \o join(args, break_(",", ", ")))
         \o break_(",", ",") \o Text(")")

\* wrap_args(args)
wrap_args(args) ==
    IF args = <<>> THEN Text("()")
    ELSE nest(break_("(", "(") \o join(args, break_(",", ", ")))
         \o break_(",", "") \o Text(")")

\* mutant of bit_array: the separators are strict breaks whatever
\* is_simple is
bit_array_AlwaysStrict(segments, is_simple) ==
    group(nest(break_("<<", "<<") \o join(segments, break_(",", ", ")))
          \o break_(",", "") \o Text(">>"))

\* bit_array(segments, is_simple)
bit_array(segments, is_simple) ==
    LET comma == IF is_simple THEN flex_break(",", ", ")
                 ELSE break_(",", ", ")
    IN  group(nest(break_("<<", "<<") \o join(segments, comma))
              \o break_(",", "") \o Text(">>"))

\* bit_array_segment(segment, to_doc), for a segment without options, given
\* the document to_doc(value) returned
bit_array_segment(segment, value_doc) == value_doc

\* Formatter::const_expr(value): it pops no trivia
RECURSIVE const_expr(_)

\* Formatter::const_list(elements)
const_list(elements) ==
    IF elements = <<>> THEN Text("[]")
    ELSE LET comma == IF \A i \in DOMAIN elements :
                             is_simple_constant(elements[i])
                      THEN flex_break(",", ", ")
                      ELSE break_(",", ", ")
         IN  group(nest(break_("[", "[")
                        \o join([i \in DOMAIN elements |->
                                     const_expr(elements[i])], comma))
                   \o break_(",", "") \o Text("]"))

const_expr(value) ==
    CASE value.kind = "Int" -> Str(int(value.value))
      [] value.kind = "List" -> const_list(value.elements)
      [] value.kind = "Tuple" ->
           group(Text("#")
                 \o wrap_args([i \in DOMAIN value.elements |->
                                  const_expr(value.elements[i])]))
      [] value.kind = "BitArray" ->
           bit_array([i \in DOMAIN value.segments |->
                         bit_array_segment(value.segments[i],
                             const_expr(value.segments[i].value))],
                     \A i \in DOMAIN value.segments :
                         is_simple_constant(value.segments[i].value))

\* mutant of operator_side: an operand of equal precedence is wrapped too
operator_side_WrapsEqual(doc, op, side) ==
    IF op >= side THEN group(wrap_block(doc)) ELSE doc

\* Formatter::operator_side(doc, op, side)
operator_side(doc, op, side) ==
    IF op > side THEN group(wrap_block(doc)) ELSE doc

-----------------------------------------------------------------------------
(* Lowering expressions.  Every method takes the Formatter and returns the  *)
(* document together with the Formatter it leaves (&mut self).              *)

\* `let r = ...;` followed by the rest of the method body K
Then(r, K(_)) == K(r)

RECURSIVE expr(_, _)
RECURSIVE exprs(_, _)
RECURSIVE list(_, _, _)
RECURSIVE bit_array_segments(_, _)
RECURSIVE bit_array_segment_expr(_, _)
RECURSIVE call(_, _, _)
RECURSIVE call_arg(_, _)
RECURSIVE call_args(_, _)
RECURSIVE bin_op(_, _, _, _)
RECURSIVE pipeline(_, _)
RECURSIVE pipeline_loop(_, _, _)
RECURSIVE pipe_capture_right_hand_side(_, _)
RECURSIVE fn_capture(_, _)
RECURSIVE block(_, _)
RECURSIVE statements(_, _)
RECURSIVE statements_loop(_, _, _, _)
RECURSIVE statement(_, _)
RECURSIVE assignment(_, _)
RECURSIVE use_(_, _)
RECURSIVE case_(_, _, _)
RECURSIVE subjects_loop(_, _)
RECURSIVE clauses_loop(_, _, _)
RECURSIVE clause(_, _, _)
RECURSIVE case_clause_value(_, _)
RECURSIVE assigned_value(_, _)

RECURSIVE pattern(_, _)

\* the iterator segments.iter().map(|s| bit_array_segment(s, |e|
\* self.pattern(e))), run in order
RECURSIVE pattern_segments(_, _)
pattern_segments(self, segments) ==
    IF segments = <<>> THEN [docs |-> <<>>, self |-> self]
    ELSE Then(pattern(self, Head(segments).value), LAMBDA e :
         Then(pattern_segments(e.self, Tail(segments)), LAMBDA rest :
         [docs |-> <<bit_array_segment(Head(segments), e.doc)>> \o rest.docs,
          self |-> rest.self]))

\* Formatter::pattern(pattern), for variables, discards, integers and bit
\* arrays
pattern(self, p) ==
    Then(pop_comments(self, p.location.start), LAMBDA c :
    Then(CASE p.kind = "Variable" ->
                R(Leaf(p.name, p.location.start), c.self)
           [] p.kind = "Discard" ->
                R(Leaf(p.name, p.location.start), c.self)
           [] p.kind = "Int" -> R(Str(int(p.value)), c.self)
           [] p.kind = "BitArray" ->
                Then(pattern_segments(c.self, p.segments), LAMBDA ss :
                R(bit_array(ss.docs, FALSE), ss.self)),
         LAMBDA doc :
    R(commented(doc.doc, c.ret), doc.self)))

\* the iterator args.iter().map(|a| self.call_arg(a)), run in order
call_args(self, args) ==
    IF args = <<>> THEN [docs |-> <<>>, self |-> self]
    ELSE Then(call_arg(self, Head(args)), LAMBDA a :
         Then(call_args(a.self, Tail(args)), LAMBDA rest :
         [docs |-> <<a.doc>> \o rest.docs, self |-> rest.self]))

\* Formatter::call_arg(arg)
call_arg(self, arg) ==
    Then(IF arg.label # "" THEN pop_comments(self, arg.location.start)
         ELSE [ret |-> <<>>, self |-> self], LAMBDA c :
    Then(expr(c.self, arg.value), LAMBDA value :
    R((IF arg.label # ""
       THEN commented(Text(arg.label) \o Text(": "), c.ret)
       ELSE nil) \o value.doc,
      value.self)))

\* Formatter::expr(expr)
expr(self, e) ==
    Then(pop_comments(self, start_byte_index(e)), LAMBDA c :
    Then(CASE e.kind = "Placeholder" ->
                R(Panic("Placeholders should not be formatted"), c.self)
           [] e.kind = "PipeLine" -> pipeline(c.self, e.expressions)
           [] e.kind = "Int" -> R(Str(int(e.value)), c.self)
           [] e.kind = "Block" -> block(c.self, e.statements)
           [] e.kind = "Var" ->
                R(IF e.name = CAPTURE_VARIABLE THEN Text("_")
                  ELSE Leaf(e.name, e.location.start), c.self)
           [] e.kind = "Fn" /\ e.is_capture -> fn_capture(c.self, e.body)
           [] e.kind = "List" -> list(c.self, e.elements, e.tail)
           [] e.kind = "Call" -> call(c.self, e.fun, e.arguments)
           [] e.kind = "BinOp" -> bin_op(c.self, e.name, e.left, e.right)
           [] e.kind = "Case" -> case_(c.self, e.subjects, e.clauses)
           [] e.kind = "Tuple" ->
                Then(exprs(c.self, e.elems), LAMBDA es :
                R(group(Text("#") \o wrap_args(es.docs)), es.self))
           [] e.kind = "BitArray" ->
                Then(bit_array_segments(c.self, e.segments), LAMBDA ss :
                R(bit_array(ss.docs,
                            \A i \in DOMAIN e.segments :
                                is_simple_constant(e.segments[i].value)),
                  ss.self)),
         LAMBDA document :
    R(commented(document.doc, c.ret), document.self)))

\* the iterator elements.iter().map(|e| self.expr(e)), run in order
exprs(self, es) ==
    IF es = <<>> THEN [docs |-> <<>>, self |-> self]
    ELSE Then(expr(self, Head(es)), LAMBDA e :
         Then(exprs(e.self, Tail(es)), LAMBDA rest :
         [docs |-> <<e.doc>> \o rest.docs, self |-> rest.self]))

\* Formatter::list(elements, tail)
list(self, elements, tail) ==
    IF elements = <<>>
    THEN (IF tail.kind # "None" THEN expr(self, tail)
          ELSE R(Text("[]"), self))
    ELSE LET comma == IF /\ tail.kind = "None"
                         /\ \A i \in DOMAIN elements :
                                is_simple_constant(elements[i])
                      THEN flex_break(",", ", ")
                      ELSE break_(",", ", ")
         IN  Then(exprs(self, elements), LAMBDA es :
             IF tail.kind = "None"
             THEN R(group(nest(break_("[", "[") \o join(es.docs, comma))
                          \o break_(",", "") \o Text("]")),
                    es.self)
             ELSE Then(pop_comments(es.self, tail.location.start), LAMBDA c :
                  Then(expr(c.self, tail), LAMBDA t :
                  R(group(nest(break_("[", "[") \o join(es.docs, comma)
                               \o break_(",", ", ")
                               \o commented(Text("..") \o t.doc, c.ret))
                          \o break_("", "") \o Text("]")),
                    t.self))))

\* the iterator segments.iter().map(|s| bit_array_segment(s, ...)), run in
\* order
bit_array_segments(self, segments) ==
    IF segments = <<>> THEN [docs |-> <<>>, self |-> self]
    ELSE Then(bit_array_segment_expr(self, Head(segments).value), LAMBDA v :
         Then(bit_array_segments(v.self, Tail(segments)), LAMBDA rest :
         [docs |-> <<bit_array_segment(Head(segments), v.doc)>> \o rest.docs,
          self |-> rest.self]))

\* Formatter::bit_array_segment_expr(expr)
bit_array_segment_expr(self, e) ==
    CASE e.kind = "Placeholder" ->
           R(Panic("Placeholders should not be formatted"), self)
      [] e.kind = "BinOp" ->
           Then(expr(self, e), LAMBDA r : R(wrap_block(r.doc), r.self))
      [] OTHER -> expr(self, e)

\* the head of a call: let expr = match fun { ... }
call_fun(self, fun) ==
    CASE fun.kind = "Placeholder" ->
           R(Panic("Placeholders should not be formatted"), self)
      [] fun.kind = "PipeLine" ->
           Then(expr(self, fun), LAMBDA r : R(break_block(r.doc), r.self))
      [] OTHER -> expr(self, fun)

\* Formatter::call(fun, args)
call(self, fun, args) ==
    Then(call_fun(self, fun), LAMBDA f :
    IF /\ Len(args) = 1
       /\ is_breakable_expr(args[1].value)
       /\ ~any_comments(f.self, args[1].location.start)
    THEN Then(call_arg(f.self, args[1]), LAMBDA a :
         R(group(f.doc \o Text("(") \o a.doc \o Text(")")), a.self))
    ELSE Then(call_args(f.self, args), LAMBDA as :
         R(group(f.doc \o group(wrap_args(as.docs))), as.self)))

\* Formatter::bin_op(name, left, right)
bin_op(self, name, left, right) ==
    Then(expr(self, left), LAMBDA l :
    Then(expr(l.self, right), LAMBDA r :
    R(operator_side(l.doc, precedence(name), binop_precedence(left))
      \o BinOpDoc(name)
      \o operator_side(r.doc, precedence(name),
                       U8Sub(binop_precedence(right), 1)),
      r.self)))

\* matches!(args.first(), Some(CallArg { value: Var { name, .. }, .. })
\*          if name == CAPTURE_VARIABLE)
hole_in_first_position(args) ==
    /\ args # <<>>
    /\ args[1].value.kind = "Var"
    /\ args[1].value.name = CAPTURE_VARIABLE

\* mutant of pipe_capture_right_hand_side: a lone hole keeps its brackets
pipe_capture_right_hand_side_EmptyArgs(self, fun) ==
    IF fun.kind # "Call"
    THEN R(Panic("Function capture found not to have a function call body when formatting"), self)
    ELSE Then(expr(self, fun.fun), LAMBDA f :
         Then(call_args(f.self, IF hole_in_first_position(fun.arguments)
                                THEN Tail(fun.arguments)
                                ELSE fun.arguments), LAMBDA as :
         R(f.doc \o group(wrap_args(as.docs)), as.self)))

\* Formatter::pipe_capture_right_hand_side(fun)
pipe_capture_right_hand_side(self, fun) ==
    IF fun.kind # "Call"
    THEN R(Panic("Function capture found not to have a function call body when formatting"), self)
    ELSE Then(expr(self, fun.fun), LAMBDA f :
         IF hole_in_first_position(fun.arguments) /\ Len(fun.arguments) = 1
         THEN \* x |> fun(_)
              f
         ELSE Then(call_args(f.self,
                             IF hole_in_first_position(fun.arguments)
                             THEN \* x |> fun(_, 2, 3)
                                  Tail(fun.arguments)
                             ELSE \* x |> fun(1, _, 3)
                                  fun.arguments), LAMBDA as :
              R(f.doc \o group(wrap_args(as.docs)), as.self)))

\* one stage of pipeline: let doc = match expr { ... }
pipeline_stage(self, e) ==
    IF e.kind = "Fn" /\ e.is_capture
    THEN IF e.body[1].kind = "Expression"
         THEN pipe_capture_right_hand_side(self, e.body[1].expression)
         ELSE R(Panic("Non expression capture body"), self)
    ELSE expr(self, e)

\* the loop of pipeline over expressions.iter().skip(1)
pipeline_loop(self, expressions, docs) ==
    IF expressions = <<>> THEN R(docs, self)
    ELSE Then(pop_comments(self, Head(expressions).location.start), LAMBDA c :
         Then(pipeline_stage(c.self, Head(expressions)), LAMBDA d :
         pipeline_loop(d.self, Tail(expressions),
             docs \o line \o commented(Text("|> "), c.ret)
                  \o operator_side(d.doc, 4,
                                   binop_precedence(Head(expressions))))))

\* mutant of pipeline: the stages are grouped, not force-broken
pipeline_Grouped(self, expressions) ==
    Then(expr(self, Head(expressions)), LAMBDA f :
    Then(pipeline_loop(f.self, Tail(expressions),
                       operator_side(f.doc, 5,
                                     binop_precedence(Head(expressions)))),
         LAMBDA r :
    R(group(r.doc), r.self)))

\* Formatter::pipeline(expressions)
pipeline(self, expressions) ==
    Then(expr(self, Head(expressions)), LAMBDA f :
    Then(pipeline_loop(f.self, Tail(expressions),
                       operator_side(f.doc, 5,
                                     binop_precedence(Head(expressions)))),
         LAMBDA r :
    R(force_break(r.doc), r.self)))

\* mutant of fn_capture: a body of several statements is lowered from its
\* first statement
fn_capture_AnyLength(self, body) ==
    IF body # <<>> /\ body[1].kind = "Expression"
       /\ body[1].expression.kind = "Call"
    THEN Then(expr(self, body[1].expression.fun), LAMBDA f :
         Then(call_args(f.self, body[1].expression.arguments), LAMBDA as :
         R(f.doc \o group(wrap_args(as.docs)), as.self)))
    ELSE R(Panic("Function capture body found not to be a call in the formatter"), self)

\* Formatter::fn_capture(call)
fn_capture(self, body) ==
    IF Len(body) # 1
    THEN R(Panic("Function capture found not to have a single statement call"), self)
    ELSE IF body[1].kind = "Expression" /\ body[1].expression.kind = "Call"
    THEN Then(expr(self, body[1].expression.fun), LAMBDA f :
         Then(body[1].expression.arguments, LAMBDA args :
         IF /\ Len(args) = 2
            /\ is_breakable_expr(args[2].value)
            /\ is_capture_hole(args[1])
         THEN Then(call_arg(f.self, args[2]), LAMBDA a :
              R(group(f.doc \o Text("(_, ") \o a.doc \o Text(")")), a.self))
         ELSE Then(call_args(f.self, args), LAMBDA as :
              R(f.doc \o group(wrap_args(as.docs)), as.self))))
    ELSE R(Panic("Function capture body found not to be a call in the formatter"), self)

\* Formatter::block(statements)
block(self, stmts) ==
    Then(statements(self, stmts), LAMBDA b :
    R(group(Text("{") \o nest(break_("", " ") \o b.doc)
            \o break_("", " ") \o Text("}")), b.self))

\* the for loop of statements, at statement i
statements_loop(self, stmts, i, previous_position) ==
    IF i > Len(stmts) THEN R(nil, self)
    ELSE Then(pop_empty_lines(self, previous_position + 1),
              LAMBDA preceding_newline :
         Then(statement(preceding_newline.self, stmts[i]), LAMBDA d :
         Then(statements_loop(d.self, stmts, i + 1, stmts[i].location.end),
              LAMBDA rest :
         R((IF i # 1 /\ preceding_newline.ret THEN lines(2)
            ELSE IF i # 1 THEN lines(1)
            ELSE nil) \o group(d.doc) \o rest.doc, rest.self))))

\* Formatter::statements(statements)
statements(self, stmts) ==
    Then(statements_loop(self, stmts, 1, 0), LAMBDA r :
    IF Len(stmts) = 1 /\ stmts[1].kind = "Expression"
    THEN r
    ELSE R(force_break(r.doc), r.self))

\* Formatter::statement(statement)
statement(self, st) ==
    CASE st.kind = "Expression" -> expr(self, st.expression)
      [] st.kind = "Assignment" -> assignment(self, st)
      [] st.kind = "Use" -> use_(self, st)

\* Formatter::assignment(assignment), Let without annotation
assignment(self, a) ==
    Then(pop_comments(self, a.location.start), LAMBDA c :
    Then(pop_empty_lines(c.self, a.pattern.location.end), LAMBDA e :
    Then(pattern(e.self, a.pattern), LAMBDA p :
    Then(assigned_value(p.self, a.value), LAMBDA v :
    R(commented(Text("let ") \o group(p.doc) \o Text(" =") \o v.doc, c.ret),
      v.self)))))

\* Formatter::use_(use_), without assignments
use_(self, u) ==
    Then(pop_comments(self, u.location.start), LAMBDA c :
    Then(expr(c.self, u.call), LAMBDA v :
    R(commented(Text("use <-")
                \o (IF u.call.kind = "Call"
                    THEN group(Text(" ") \o v.doc)
                    ELSE group(nest(break_("", " ") \o v.doc))),
                c.ret),
      v.self)))

\* the iterator subjects.iter().map(|s| self.expr(s)), run in order
subjects_loop(self, subjects) ==
    IF subjects = <<>> THEN [docs |-> <<>>, self |-> self]
    ELSE Then(expr(self, Head(subjects)), LAMBDA d :
         Then(subjects_loop(d.self, Tail(subjects)), LAMBDA rest :
         [docs |-> <<d.doc>> \o rest.docs, self |-> rest.self]))

\* the iterator clauses.iter().enumerate().map(|(i, c)| self.clause(c, i))
clauses_loop(self, clauses, index) ==
    IF clauses = <<>> THEN R(nil, self)
    ELSE Then(clause(self, Head(clauses), index), LAMBDA d :
         Then(clauses_loop(d.self, Tail(clauses), index + 1), LAMBDA rest :
         R(d.doc \o rest.doc, rest.self)))

\* Formatter::case(subjects, clauses)
case_(self, subjects, clauses) ==
    Then(subjects_loop(self, subjects), LAMBDA s :
    Then(clauses_loop(s.self, clauses, 0), LAMBDA c :
    R(force_break(group(nest(break_("case", "case ")
                             \o join(s.docs, break_(",", ", ")))
                        \o break_("", " ") \o Text("{"))
                  \o nest(line \o c.doc) \o line \o Text("}")),
      c.self)))

\* the patterns of one alternative, lowered in order
RECURSIVE patterns_loop(_, _)
patterns_loop(self, ps) ==
    IF ps = <<>> THEN [docs |-> <<>>, self |-> self]
    ELSE Then(pattern(self, Head(ps)), LAMBDA d :
         Then(patterns_loop(d.self, Tail(ps)), LAMBDA rest :
         [docs |-> <<d.doc>> \o rest.docs, self |-> rest.self]))

\* the end of clause: the separator, the commented patterns and the value
clause_doc(index, space_before, patterns_doc, value) ==
    (IF index = 0 THEN patterns_doc
     ELSE IF space_before THEN lines(2) \o patterns_doc
     ELSE lines(1) \o patterns_doc)
    \o Text(" ->") \o value

\* Formatter::clause(clause, index), without alternatives and guard
clause(self, c, index) ==
    Then(pop_empty_lines(self, c.location.start), LAMBDA space_before :
    Then(pop_comments(space_before.self, c.location.start), LAMBDA cs :
    Then(patterns_loop(cs.self, c.pattern), LAMBDA ps :
    Then(case_clause_value(ps.self, c.then), LAMBDA v :
    R(clause_doc(index, space_before.ret,
                 commented(group(join(ps.docs, Text(", "))), cs.ret),
                 v.doc),
      v.self)))))

\* Formatter::case_clause_value(expr)
case_clause_value(self, e) ==
    IF e.kind = "Block"
    THEN Then(statements(self, e.statements), LAMBDA d :
         R(group(Text(" {") \o nest(line \o d.doc) \o line \o Text("}")),
           d.self))
    ELSE Then(expr(self, e), LAMBDA d :
         R(CASE e.kind \in {"Fn", "List", "Tuple", "BitArray"} ->
                  group(Text(" ") \o d.doc)
             [] e.kind = "Case" -> group(nest(line \o d.doc))
             [] OTHER -> group(nest(break_("", " ") \o d.doc)),
           d.self))

\* Formatter::assigned_value(expr)
assigned_value(self, e) ==
    IF e.kind = "Case"
    THEN Then(expr(self, e), LAMBDA d : R(group(Text(" ") \o d.doc), d.self))
    ELSE case_clause_value(self, e)

-----------------------------------------------------------------------------
(* Clause guards *)

GuardVar(name, at) ==
    [kind |-> "Var", name |-> name, location |-> SrcSpan(at, at + 1)]

GuardBinOp(kind, left, right) ==
    [kind |-> kind, left |-> left, right |-> right,
     location |-> SrcSpan(left.location.start, right.location.end)]

GuardBinOps ==
    {"And", "Or", "Equals", "NotEquals", "GtInt", "GtEqInt", "LtInt",
     "LtEqInt", "GtFloat", "GtEqFloat", "LtFloat", "LtEqFloat"}

\* ClauseGuard::precedence (ast.rs)
guard_precedence(g) ==
    CASE g.kind = "Or" -> 1
      [] g.kind = "And" -> 2
      [] g.kind \in {"Equals", "NotEquals"} -> 3
      [] g.kind \in {"GtInt", "GtEqInt", "LtInt", "LtEqInt",
                     "GtFloat", "GtEqFloat", "LtFloat", "LtEqFloat"} -> 4
      [] OTHER -> 5

\* the operator text clause_guard hands to clause_guard_bin_op
GuardOpText(kind) ==
    CASE kind = "And" -> " && "
      [] kind = "Or" -> " || "
      [] kind = "Equals" -> " == "
      [] kind = "NotEquals" -> " != "
      [] kind = "GtInt" -> " > "
      [] kind = "GtEqInt" -> " >= "
      [] kind = "LtInt" -> " < "
      [] kind = "LtEqInt" -> " <= "
      [] kind = "GtFloat" -> " >. "
      [] kind = "GtEqFloat" -> " >=. "
      [] kind = "LtFloat" -> " <. "
      [] kind = "LtEqFloat" -> " <=. "

RECURSIVE clause_guard(_)

\* Formatter::clause_guard_bin_op(name, name_precedence, left, right)
clause_guard_bin_op(name, name_precedence, left, right) ==
    LET left_precedence == guard_precedence(left)
        right_precedence == guard_precedence(right)
        l == clause_guard(left)
        r == clause_guard(right)
    IN  operator_side(l, name_precedence, left_precedence)
        \o Text(name)
        \o operator_side(r, name_precedence, U8Sub(right_precedence, 1))

\* Formatter::clause_guard(clause_guard): it pops no trivia
clause_guard(g) ==
    IF g.kind \in GuardBinOps
    THEN clause_guard_bin_op(GuardOpText(g.kind), guard_precedence(g),
                             g.left, g.right)
    ELSE Leaf(g.name, g.location.start)

-----------------------------------------------------------------------------
(* Lowering definitions *)

\* Formatter::type_ast(t), for a named type without arguments
type_ast(t) == Leaf(t, 0)

\* mutant of deprecation_attr: the attribute is never printed
deprecation_attr_Silent(deprecation) == Text("")

\* Formatter::deprecation_attr(deprecation)
deprecation_attr(deprecation) ==
    CASE deprecation.kind = "NotDeprecated" -> Text("")
      [] deprecation.kind = "Deprecated" ->
           Text("") \o Text("@deprecated(\"") \o Leaf(deprecation.message, 0)
           \o Text("\")") \o line

\* Formatter::type_alias(public, name, args, typ, deprecation), private and
\* without parameters
type_alias(alias) ==
    deprecation_attr(alias.deprecation) \o Text("type ")
    \o Leaf(alias.alias, alias.location.start) \o Text(" =")
    \o nest(group(line \o type_ast(alias.type_ast)))

\* the closure of record_constructor over one RecordConstructorArg
record_constructor_arg(self, arg) ==
    Then(pop_comments(self, arg.location.start), LAMBDA arg_comments :
    Then(doc_comments_(arg_comments.self, arg.location.start), LAMBDA d :
    R(commented(group(d.doc
                      \o (IF arg.label # ""
                          THEN Text(arg.label) \o Text(": ") \o type_ast(arg.ast)
                          ELSE type_ast(arg.ast))),
                arg_comments.ret),
      d.self)))

RECURSIVE record_constructor_args(_, _)
record_constructor_args(self, args) ==
    IF args = <<>> THEN [docs |-> <<>>, self |-> self]
    ELSE Then(record_constructor_arg(self, Head(args)), LAMBDA a :
         Then(record_constructor_args(a.self, Tail(args)), LAMBDA rest :
         [docs |-> <<a.doc>> \o rest.docs, self |-> rest.self]))

\* Formatter::record_constructor(constructor)
record_constructor(self, constructor) ==
    Then(pop_comments(self, constructor.location.start), LAMBDA c :
    Then(doc_comments_(c.self, constructor.location.start), LAMBDA d :
    Then(record_constructor_args(d.self, constructor.arguments), LAMBDA as :
    R(commented(
          group(d.doc
                \o (IF constructor.arguments = <<>>
                    THEN Leaf(constructor.name, constructor.location.start)
                    ELSE group(Leaf(constructor.name,
                                    constructor.location.start)
                               \o wrap_args(as.docs)))),
          c.ret),
      as.self))))

\* the closure of custom_type over the constructors, run in order
RECURSIVE constructors_loop(_, _)
constructors_loop(self, constructors) ==
    IF constructors = <<>> THEN R(nil, self)
    ELSE Then(pop_empty_lines(self, Head(constructors).location.start),
              LAMBDA e :
         Then(record_constructor(e.self, Head(constructors)), LAMBDA d :
         Then(constructors_loop(d.self, Tail(constructors)), LAMBDA rest :
         R((IF e.ret THEN lines(2) ELSE line) \o d.doc \o rest.doc,
           rest.self))))

\* a body and the comments left before its closing brace:
\* match printed_comments(self.pop_comments(end_position), false)
with_trailing_comments(body, cs) ==
    IF printed_comments(cs, FALSE).is_some
    THEN body \o line \o printed_comments(cs, FALSE).doc
    ELSE body

\* Formatter::custom_type(ct): private, not opaque, no parameters, not
\* deprecated
custom_type(self, ct) ==
    Then(pop_empty_lines(self, ct.location.end), LAMBDA e :
    IF ct.constructors = <<>>
    THEN R(deprecation_attr(ct.deprecation) \o Text("type ")
           \o Leaf(ct.name, ct.location.start), e.self)
    ELSE Then(constructors_loop(e.self, ct.constructors), LAMBDA inner :
         Then(pop_comments(inner.self, ct.end_position), LAMBDA c :
         R(deprecation_attr(ct.deprecation) \o Text("type ")
           \o Leaf(ct.name, ct.location.start) \o Text(" {")
           \o group(nest(with_trailing_comments(inner.doc, c.ret)))
           \o line \o Text("}"),
           c.self))))

\* the closure `external` of statement_fn
external(t, e) ==
    Text("@external(") \o Text(t) \o Text(", \"") \o Leaf(e.module, 0)
    \o Text("\", \"") \o Leaf(e.function, 0) \o Text("\")") \o line

\* the attributes of statement_fn: @deprecated, then the @external ones
attributes(function) ==
    deprecation_attr(function.deprecation)
    \o (IF function.external_erlang.is_some
        THEN external("erlang", function.external_erlang) ELSE nil)
    \o (IF function.external_javascript.is_some
        THEN external("javascript", function.external_javascript) ELSE nil)

\* the signature of statement_fn: private, no arguments, no return
\* annotation
signature(function) ==
    group(Text("fn ") \o Leaf(function.name, function.location.start)
          \o wrap_args(<<>>))

\* the head of statement_fn
head(function) == attributes(function) \o signature(function)

\* mutant of statement_fn: the body is printed whatever it is
statement_fn_AlwaysBody(self, function) ==
    Then(statements(self, function.body), LAMBDA body :
    Then(pop_comments(body.self, function.end_position), LAMBDA c :
    R(head(function) \o Text(" {")
      \o group(nest(line \o with_trailing_comments(body.doc, c.ret)))
      \o line \o Text("}"),
      c.self)))

\* Formatter::statement_fn(function)
statement_fn(self, function) ==
    IF Len(function.body) = 1 /\ is_placeholder(function.body[1])
    THEN R(head(function), self)
    ELSE Then(statements(self, function.body), LAMBDA body :
         Then(pop_comments(body.self, function.end_position), LAMBDA c :
         R(head(function) \o Text(" {")
           \o group(nest(line \o with_trailing_comments(body.doc, c.ret)))
           \o line \o Text("}"),
           c.self)))

\* Ord::cmp of two names (str): lexicographic on the bytes
RECURSIVE cmp(_, _)
cmp(a, b) ==
    IF a = <<>> THEN (IF b = <<>> THEN "Equal" ELSE "Less")
    ELSE IF b = <<>> THEN "Greater"
    ELSE IF Head(a) < Head(b) THEN "Less"
    ELSE IF Head(a) > Head(b) THEN "Greater"
    ELSE cmp(Tail(a), Tail(b))

\* one step of the stable sort: e goes in front of the first element whose
\* name is greater, behind every element that compares Less or Equal
RECURSIVE InsertByName(_, _)
InsertByName(sorted, e) ==
    IF sorted = <<>> THEN <<e>>
    ELSE IF cmp(e.name, Head(sorted).name) = "Less" THEN <<e>> \o sorted
    ELSE <<Head(sorted)>> \o InsertByName(Tail(sorted), e)

\* mutant of sorted_by: the items stay in source order
sorted_by_SourceOrder(items) == items

\* Itertools::sorted_by(|a, b| a.name.cmp(&b.name)): Vec::sort_by, a stable
\* sort; items of equal name keep their source order
RECURSIVE sorted_by(_)
sorted_by(items) ==
    IF items = <<>> THEN <<>>
    ELSE InsertByName(sorted_by(SubSeq(items, 1, Len(items) - 1)),
                      items[Len(items)])

\* <&UnqualifiedImport as Documentable>::to_doc
unqualified_import(e) ==
    Str(e.name) \o (IF e.as_name.is_some
                    THEN Text(" as ") \o Str(e.as_name.content)
                    ELSE nil)

\* Formatter::definition, Definition::Import arm
import_(d) ==
    Text("import ") \o Leaf(d.module, d.location.start)
    \o (IF d.unqualified_values = <<>> /\ d.unqualified_types = <<>>
        THEN nil
        ELSE Text(".{")
             \o group(nest(break_("", "")
                           \o join([i \in DOMAIN d.unqualified_types |->
                                       Text("type ") \o unqualified_import(
                                           sorted_by(d.unqualified_types)[i])]
                                   \o [i \in DOMAIN d.unqualified_values |->
                                         unqualified_import(
                                           sorted_by(d.unqualified_values)[i])],
                                   flex_break(",", ", ")))
                      \o break_(",", ""))
             \o Text("}"))
    \o (IF d.as_name.is_some
        THEN Text(" as ") \o Str(d.as_name.content)
        ELSE nil)

\* Formatter::definition(statement)
definition(self, d) ==
    CASE d.kind = "Function" -> statement_fn(self, d)
      [] d.kind = "TypeAlias" -> R(type_alias(d), self)
      [] d.kind = "CustomType" -> custom_type(self, d)
      [] d.kind = "Import" -> R(import_(d), self)

\* Formatter::documented_definition(s)
documented_definition(self, d) ==
    Then(doc_comments_(self, d.location.start), LAMBDA c :
    Then(definition(c.self, d), LAMBDA b :
    R(group(c.doc \o group(b.doc)), b.self)))

\* mutant of targeted_definition: every target is printed as erlang
targeted_definition_AlwaysErlang(self, td) ==
    Then(pop_comments(self, td.definition.location.start), LAMBDA c :
    Then(documented_definition(c.self, td.definition), LAMBDA d :
    R(commented(CASE td.target = "None" -> d.doc
                  [] OTHER -> Text("@target(erlang)") \o line \o d.doc,
                c.ret),
      d.self)))

\* Formatter::targeted_definition(definition)
targeted_definition(self, td) ==
    Then(pop_comments(self, td.definition.location.start), LAMBDA c :
    Then(documented_definition(c.self, td.definition), LAMBDA d :
    R(commented(CASE td.target = "None" -> d.doc
                  [] td.target = "Erlang" ->
                       Text("@target(erlang)") \o line \o d.doc
                  [] td.target = "JavaScript" ->
                       Text("@target(javascript)") \o line \o d.doc,
                c.ret),
      d.self)))

\* mutant of separator: two imports are set apart like any other pair
separator_AlwaysTwo(docs, was_import, is_import) ==
    IF docs = <<>> THEN <<>> ELSE <<lines(2)>>

\* the separator module() pushes before a definition
separator(docs, was_import, is_import) ==
    IF docs = <<>> THEN <<>>
    ELSE IF was_import /\ is_import THEN <<lines(1)>>
    ELSE <<lines(2)>>

\* mutant of module_end: the doc comments left over are not printed
module_end_NoDocComments(self, docs) ==
    LET c == pop_comments(self, U32Max)
        printed == printed_comments(c.ret, FALSE)
        module_comments_ ==
            IF self.module_comments # <<>>
            THEN join([i \in DOMAIN self.module_comments |->
                          CommentDoc("////", self.module_comments[i].content)],
                      line) \o line
            ELSE nil
        non_empty == SelectSeq(<<module_comments_, concat(docs),
                                 IF printed.is_some THEN printed.doc ELSE nil>>,
                               LAMBDA doc : ~is_empty(doc))
    IN  R(join(non_empty, line) \o line, c.self)

\* mutant of module_end: the comments left over are joined before the doc
\* comments left over
module_end_CommentsFirst(self, docs) ==
    LET definitions == concat(docs)
        doc_comments__ ==
            join([i \in DOMAIN self.doc_comments |->
                     CommentDoc("///", self.doc_comments[i].content)], line)
        c == pop_comments(self, U32Max)
        printed == printed_comments(c.ret, FALSE)
        comments_ == IF printed.is_some THEN printed.doc ELSE nil
        module_comments_ ==
            IF self.module_comments # <<>>
            THEN join([i \in DOMAIN self.module_comments |->
                          CommentDoc("////", self.module_comments[i].content)],
                      line) \o line
            ELSE nil
        non_empty == SelectSeq(<<module_comments_, definitions,
                                 comments_, doc_comments__>>,
                               LAMBDA doc : ~is_empty(doc))
    IN  R(join(non_empty, line) \o line, c.self)

\* the end of module(): what is left of the trivia and the final join
module_end(self, docs) ==
    LET definitions == concat(docs)
        doc_comments__ ==
            join([i \in DOMAIN self.doc_comments |->
                     CommentDoc("///", self.doc_comments[i].content)], line)
        c == pop_comments(self, U32Max)
        printed == printed_comments(c.ret, FALSE)
        comments_ == IF printed.is_some THEN printed.doc ELSE nil
        module_comments_ ==
            IF self.module_comments # <<>>
            THEN join([i \in DOMAIN self.module_comments |->
                          CommentDoc("////", self.module_comments[i].content)],
                      line) \o line
            ELSE nil
        non_empty == SelectSeq(<<module_comments_, definitions,
                                 doc_comments__, comments_>>,
                               LAMBDA doc : ~is_empty(doc))
    IN  R(join(non_empty, line) \o line, c.self)

-----------------------------------------------------------------------------
(* Trivia tables: what Intermediate::from_extra builds from the parser's     *)
(* ModuleExtra.  Every offset of the source starts at most one piece of      *)
(* trivia, and the parser lists each kind in increasing offset order.        *)

TriviaKinds == {"none", "comment", "doc", "module", "empty"}

OffsetsOf(kinds, k) == {o \in DOMAIN kinds : kinds[o] = k}

CommentsAt(S) == LET o == SortedSeq(S) IN [i \in DOMAIN o |-> Comment(o[i])]

\* Intermediate::from_extra(extra, src)
from_extra(kinds) ==
    [comments |-> CommentsAt(OffsetsOf(kinds, "comment")),
     doc_comments |-> CommentsAt(OffsetsOf(kinds, "doc")),
     module_comments |-> CommentsAt(OffsetsOf(kinds, "module")),
     empty_lines |-> SortedSeq(OffsetsOf(kinds, "empty"))]

NoCall == [op |-> "none", limit |-> 0, popped |-> <<>>, removed |-> FALSE,
           earlier |-> -1,
           before |-> Formatter(<<>>, <<>>, <<>>, <<>>)]

PopOps == {"pop_comments", "pop_doc_comments", "pop_empty_lines"}

NoneSeen == [op \in PopOps |-> -1]

-----------------------------------------------------------------------------
(* SpecPop: a Formatter over an arbitrary trivia table, its pop_* methods    *)
(* called in any order with any limits.                                      *)

PopLimits == (0..MaxPopOffset) \cup {U32Max}

InitPop ==
    /\ \E kinds \in [0..MaxPopOffset -> TriviaKinds] :
          /\ table = from_extra(kinds)
          /\ comments = from_extra(kinds).comments
          /\ doc_comments = from_extra(kinds).doc_comments
          /\ module_comments = from_extra(kinds).module_comments
          /\ empty_lines = from_extra(kinds).empty_lines
    /\ input = <<>>
    /\ pc = "pop"
    /\ documents = <<>>
    /\ previous_was_import = FALSE
    /\ out = <<>>
    /\ last = NoCall
    /\ seen = NoneSeen

\* the Formatter `self` left by a method is stored back into the variables
Store(self) ==
    /\ comments' = self.comments
    /\ doc_comments' = self.doc_comments
    /\ module_comments' = self.module_comments
    /\ empty_lines' = self.empty_lines

Called(op, limit, popped, removed) ==
    /\ last' = [op |-> op, limit |-> limit, popped |-> popped,
                removed |-> removed, earlier |-> seen[op], before |-> Self]
    /\ seen' = [seen EXCEPT ![op] = Max(@, limit)]

PopComments(limit) ==
    /\ pc = "pop"
    /\ LET r == pop_comments(Self, limit)
       IN  /\ Store(r.self)
           /\ Called("pop_comments", limit, r.ret, FALSE)
    /\ UNCHANGED <<table, input, pc, documents, previous_was_import, out>>

PopDocComments(limit) ==
    /\ pc = "pop"
    /\ LET r == pop_doc_comments(Self, limit)
       IN  /\ Store(r.self)
           /\ Called("pop_doc_comments", limit, r.ret, FALSE)
    /\ UNCHANGED <<table, input, pc, documents, previous_was_import, out>>

PopEmptyLines(limit) ==
    /\ pc = "pop"
    /\ LET r == pop_empty_lines(Self, limit)
       IN  /\ Store(r.self)
           /\ Called("pop_empty_lines", limit, <<>>, r.ret)
    /\ UNCHANGED <<table, input, pc, documents, previous_was_import, out>>

NextPop ==
    \/ \E limit \in PopLimits : PopComments(limit)
    \/ \E limit \in PopLimits : PopDocComments(limit)
    \/ \E limit \in PopLimits : PopEmptyLines(limit)

SpecPop == InitPop /\ [][NextPop]_vars

-----------------------------------------------------------------------------
(* Properties of the pop_* operations (SpecPop) *)

StartsAfter(cs, limit) == SelectSeq(cs, LAMBDA c : c.start > limit)
StartsUpTo(cs, limit) == SelectSeq(cs, LAMBDA c : c.start <= limit)
OffsetsAfter(els, limit) == SelectSeq(els, LAMBDA l : l > limit)

\* the comment texts among the items a pop returned
SomeContents(popped) ==
    LET some == SelectSeq(popped, LAMBDA x : x.is_some)
    IN  [i \in DOMAIN some |-> some[i].content]

Contents(cs) == [i \in DOMAIN cs |-> cs[i].content]

\* C3: each pop_* call removes from its cursor exactly the items at offsets
\* <= limit (pop_comments and pop_doc_comments return exactly the comments
\* they removed, and drop the blank-line offsets <= limit as well) and keeps
\* exactly those at offsets > limit; a call whose limit is not above the
\* largest limit the same operation was called with before returns nothing
\* and leaves every cursor as it was.
C3_PopUpToLimit ==
    LET L == last.limit
        b == last.before
    IN  /\ last.op = "pop_comments" =>
            /\ comments = StartsAfter(b.comments, L)
            /\ SomeContents(last.popped) = Contents(StartsUpTo(b.comments, L))
            /\ empty_lines = OffsetsAfter(b.empty_lines, L)
        /\ last.op = "pop_doc_comments" =>
            /\ doc_comments = StartsAfter(b.doc_comments, L)
            /\ SomeContents(last.popped) = Contents(StartsUpTo(b.doc_comments, L))
            /\ empty_lines = OffsetsAfter(b.empty_lines, L)
        /\ last.op = "pop_empty_lines" =>
            /\ empty_lines = OffsetsAfter(b.empty_lines, L)
            /\ last.removed = (empty_lines # b.empty_lines)
        /\ (last.op # "none" /\ L <= last.earlier) =>
            /\ last.popped = <<>>
            /\ ~last.removed
            /\ Self = b

\* C3 witness: pop_comments is called again with a limit it was already
\* called with, after the first call consumed a comment and left another
C3_Witness ==
    /\ last.op = "pop_comments"
    /\ last.limit <= last.earlier
    /\ comments # <<>>
    /\ comments # table.comments

\* C4: each cursor is a suffix of the sequence the Formatter was built from,
\* and a suffix of what it was before the last operation: no operation
\* lengthens a cursor, reorders it or brings a consumed item back.
C4_CursorsAreSuffixes ==
    /\ IsSuffix(comments, table.comments)
    /\ IsSuffix(doc_comments, table.doc_comments)
    /\ IsSuffix(module_comments, table.module_comments)
    /\ IsSuffix(empty_lines, table.empty_lines)
    /\ last.op # "none" =>
        /\ IsSuffix(comments, last.before.comments)
        /\ IsSuffix(doc_comments, last.before.doc_comments)
        /\ IsSuffix(module_comments, last.before.module_comments)
        /\ IsSuffix(empty_lines, last.before.empty_lines)

\* C4 witness: the doc-comment cursor has been advanced part of the way
C4_Witness ==
    /\ doc_comments # table.doc_comments
    /\ doc_comments # <<>>

-----------------------------------------------------------------------------
(* SpecLiteral: int() applied to an integer literal as the lexer hands it   *)
(* over: an optional minus sign, then digits with single underscores        *)
(* between them, or a 0x / 0b / 0o prefix and digits.                       *)

DigitChars == <<"1", "2", "3", "4", "5", "6", "7", "8", "9", "0">>

\* digits 1..n, with an underscore after digit i for every i in gaps
RECURSIVE DigitsFrom(_, _, _)
DigitsFrom(i, n, gaps) ==
    IF i > n THEN <<>>
    ELSE <<DigitChars[((i - 1) % 10) + 1]>>
         \o (IF i \in gaps THEN <<"_">> ELSE <<>>)
         \o DigitsFrom(i + 1, n, gaps)

IntPrefixes == {<<>>, <<"-">>, <<"0", "x">>, <<"0", "b">>, <<"0", "o">>}

IntLiterals ==
    {prefix \o DigitsFrom(1, n, gaps) :
        prefix \in {<<>>, <<"-">>}, n \in 1..MaxDigits,
        gaps \in SUBSET (1..(MaxDigits - 1))}
    \cup {prefix \o DigitsFrom(1, n, {g}) :
        prefix \in IntPrefixes \ {<<>>, <<"-">>}, n \in 1..MaxDigits,
        g \in 0..(MaxDigits - 1)}

InitLiteral ==
    /\ input \in {v \in IntLiterals : v[Len(v)] # "_"}
    /\ pc = "literal"
    /\ out = <<>>
    /\ table = from_extra([o \in {} |-> "none"])
    /\ comments = <<>>
    /\ doc_comments = <<>>
    /\ module_comments = <<>>
    /\ empty_lines = <<>>
    /\ documents = <<>>
    /\ previous_was_import = FALSE
    /\ last = NoCall
    /\ seen = NoneSeen

\* Formatter::int(value) is called on the literal
FormatInt ==
    /\ pc = "literal"
    /\ out' = int(input)
    /\ pc' = "done"
    /\ UNCHANGED <<table, comments, doc_comments, module_comments, empty_lines,
                   input, documents, previous_was_import, last, seen>>

NextLiteral == FormatInt

SpecLiteral == InitLiteral /\ [][NextLiteral]_vars

-----------------------------------------------------------------------------
(* Properties of int (SpecLiteral) *)

IsPrefixed(value) ==
    \/ StartsWith(value, <<"0", "x">>)
    \/ StartsWith(value, <<"0", "b">>)
    \/ StartsWith(value, <<"0", "o">>)

IsNegative(value) == StartsWith(value, <<"-">>)

\* the digits of a decimal literal, without sign and underscores
SignificantDigits(value) == SelectSeq(value, LAMBDA ch : ch \notin {"-", "_"})

\* the digits d with an underscore before every complete group of three
\* counted from the least-significant end, none before the first digit
RECURSIVE GroupedFrom(_, _)
GroupedFrom(d, i) ==
    IF i > Len(d) THEN <<>>
    ELSE (IF i > 1 /\ (Len(d) - i + 1) % 3 = 0 THEN <<"_">> ELSE <<>>)
         \o <<d[i]>> \o GroupedFrom(d, i + 1)

Grouped(value) ==
    (IF IsNegative(value) THEN <<"-">> ELSE <<>>)
    \o GroupedFrom(SignificantDigits(value), 1)

\* C10: int(value) returns a 0x, 0b or 0o literal unchanged; a decimal
\* literal of 5 or more digits (6 or more when negative) comes out with an
\* underscore exactly before every complete group of three digits counted
\* from the least-significant end and nowhere else, so never directly after
\* the minus sign, whatever underscores it was written with.
C10_IntGrouping ==
    pc = "done" =>
        /\ IsPrefixed(input) => out = input
        /\ (/\ ~IsPrefixed(input)
            /\ Len(SignificantDigits(input)) >=
                   (IF IsNegative(input) THEN 6 ELSE 5))
           => out = Grouped(input)

\* C10 witness: a negative literal of seven digits written with an
\* underscore in the wrong place comes out as two groups of three
C10_Witness ==
    /\ pc = "done"
    /\ input = <<"-", "1", "2", "_", "3", "4", "5", "6", "7">>
    /\ out = <<"-", "1", "_", "2", "3", "4", "_", "5", "6", "7">>

-----------------------------------------------------------------------------
(* SpecExpr: expr() on a binary operation or a pipeline, clause_guard() on  *)
(* a guard.  Stage k of a pipeline lies at offsets 10k .. 10k + 9, and a    *)
(* comment may stand on the line before a later stage, at offset 10k - 1.   *)

\* one operator of each precedence
BinOpNames ==
    {"Or", "And", "Eq", "LtInt", "Concatenate", "SubInt", "MultInt"}

\* the operands of the binary operations: a variable, a binary operation
\* or a pipeline, starting at offset `at`
Operands(at) ==
    {Var("a", at)}
    \cup {BinOp(name, Var("a", at), Var("b", at + 2)) : name \in BinOpNames}
    \cup {PipeLine(<<Var("a", at), Var("f", at + 2)>>)}

BinOps ==
    {BinOp(name, left, right) :
        name \in BinOpNames, left \in Operands(0), right \in Operands(10)}

GuardOperands(at) ==
    {GuardVar("a", at)}
    \cup {GuardBinOp(kind, GuardVar("a", at), GuardVar("b", at + 2)) :
            kind \in {"Or", "And", "Equals", "LtInt"}}

Guards ==
    {GuardBinOp(kind, left, right) :
        kind \in {"Or", "And", "NotEquals", "GtEqFloat"},
        left \in GuardOperands(0), right \in GuardOperands(10)}

Hole(at) == CallArg("", Var(CAPTURE_VARIABLE, at), at)
Arg(name, at) == CallArg("", Var(name, at), at)

\* f(args) as the body of a capture
CaptureOf(args, at) ==
    Capture(<<Expression(Call(Var("f", at), args, at + 8))>>, at, at + 8)

StageKinds ==
    {"var", "call", "binop", "hole_only", "hole_first", "hole_first_of_three",
     "hole_second", "hole_middle"}

Stage(kind, at) ==
    CASE kind = "var" -> Var("f", at)
      [] kind = "call" -> Call(Var("f", at), <<Arg("a", at + 2)>>, at + 8)
      [] kind = "binop" -> BinOp("Or", Var("a", at), Var("b", at + 2))
      [] kind = "hole_only" -> CaptureOf(<<Hole(at + 2)>>, at)
      [] kind = "hole_first" -> CaptureOf(<<Hole(at + 2), Arg("a", at + 4)>>, at)
      [] kind = "hole_first_of_three" ->
           CaptureOf(<<Hole(at + 2), Arg("a", at + 4), Arg("b", at + 6)>>, at)
      [] kind = "hole_second" ->
           CaptureOf(<<Arg("a", at + 2), Hole(at + 4)>>, at)
      [] kind = "hole_middle" ->
           CaptureOf(<<Arg("a", at + 2), Hole(at + 4), Arg("b", at + 6)>>, at)

FirstStages == {Var("x", 0), BinOp("SubInt", Var("x", 0), Var("y", 2))}

Pipelines ==
    {PipeLine(<<first>> \o [k \in 1..n |-> Stage(kinds[k], 10 * k)]) :
        first \in FirstStages, n \in 1..(MaxStages - 1),
        kinds \in [1..(MaxStages - 1) -> StageKinds]}

\* the comment slots of a pipeline: the line before each later stage
PipelineTrivia(pipeline_) ==
    {[o \in {10 * k - 1 : k \in 1..(Len(pipeline_.expressions) - 1)} |->
         IF o \in S THEN "comment" ELSE "none"] :
        S \in SUBSET {10 * k - 1 : k \in 1..(Len(pipeline_.expressions) - 1)}}

NoTrivia == [o \in {} |-> "none"]

InitExpr ==
    /\ \/ /\ input \in BinOps
          /\ pc = "expr"
          /\ table = from_extra(NoTrivia)
       \/ /\ input \in Guards
          /\ pc = "guard"
          /\ table = from_extra(NoTrivia)
       \/ /\ input \in Pipelines
          /\ pc = "expr"
          /\ \E kinds \in PipelineTrivia(input) : table = from_extra(kinds)
    /\ comments = table.comments
    /\ doc_comments = table.doc_comments
    /\ module_comments = table.module_comments
    /\ empty_lines = table.empty_lines
    /\ documents = <<>>
    /\ previous_was_import = FALSE
    /\ out = <<>>
    /\ last = NoCall
    /\ seen = NoneSeen

\* Formatter::expr(input)
LowerExpr ==
    /\ pc = "expr"
    /\ LET r == expr(Self, input)
       IN  /\ out' = r.doc
           /\ Store(r.self)
    /\ pc' = "done"
    /\ UNCHANGED <<table, input, documents, previous_was_import, last, seen>>

\* Formatter::clause_guard(input)
LowerGuard ==
    /\ pc = "guard"
    /\ out' = clause_guard(input)
    /\ pc' = "done"
    /\ UNCHANGED <<table, comments, doc_comments, module_comments, empty_lines,
                   input, documents, previous_was_import, last, seen>>

NextExpr == LowerExpr \/ LowerGuard

SpecExpr == InitExpr /\ [][NextExpr]_vars

-----------------------------------------------------------------------------
(* Properties of bin_op, clause_guard_bin_op and pipeline (SpecExpr) *)

NoComments == Formatter(<<>>, <<>>, <<>>, <<>>)

\* an operand inside a block: { operand }
InBlock(doc) ==
    <<Tok("group", "", 0), Tok("nest", "", 0)>> \o break_("{", "{ ") \o doc
    \o End \o break_("", " ") \o Text("}") \o End

Side(doc, wrapped) == IF wrapped THEN InBlock(doc) ELSE doc

\* C7: bin_op and clause_guard_bin_op wrap the left operand in a block
\* exactly when its precedence is lower than the operator's, and the right
\* operand exactly when its precedence is lower than the operator's plus
\* one; nothing else is added around an operand.
C7_OperandWrapping ==
    pc = "done" =>
        /\ input.kind = "BinOp" =>
             out = Side(expr(NoComments, input.left).doc,
                        binop_precedence(input.left) < precedence(input.name))
                   \o BinOpDoc(input.name)
                   \o Side(expr(NoComments, input.right).doc,
                           binop_precedence(input.right)
                               < precedence(input.name) + 1)
        /\ input.kind \in GuardBinOps =>
             out = Side(clause_guard(input.left),
                        guard_precedence(input.left) < guard_precedence(input))
                   \o Text(GuardOpText(input.kind))
                   \o Side(clause_guard(input.right),
                           guard_precedence(input.right)
                               < guard_precedence(input) + 1)

\* C7 witness: a - (b - c) keeps the block around its right operand, and
\* only there
C7_Witness ==
    /\ pc = "done"
    /\ input = BinOp("SubInt", Var("a", 0),
                     BinOp("SubInt", Var("a", 10), Var("b", 12)))
    /\ out = Leaf("a", 0) \o Text(" - ")
             \o InBlock(Leaf("a", 10) \o Text(" - ") \o Leaf("b", 12))

\* where the `|> ` of the stages stand in a document
PipeIdx(doc) == {i \in DOMAIN doc : doc[i] = Tok("text", "|> ", 0)}

NthPipe(doc, k) ==
    CHOOSE i \in PipeIdx(doc) : Cardinality({j \in PipeIdx(doc) : j <= i}) = k

Brackets == {"group", "nest", "force_break", "end"}

\* the number of wrappers open after token j
Depth(doc, j) ==
    Cardinality({i \in 1..j : doc[i].t \in Brackets \ {"end"}})
    - Cardinality({i \in 1..j : doc[i].t = "end"})

\* the document of stage k: what follows its `|> `, up to the newline of
\* the next stage or the end of the pipeline
StageStart(doc, k) ==
    IF doc[NthPipe(doc, k) - 1].t = "group"
    THEN NthPipe(doc, k) + 2
    ELSE NthPipe(doc, k) + 1

StageEnd(doc, k) ==
    IF k = Cardinality(PipeIdx(doc)) THEN Len(doc) - 1
    ELSE (CHOOSE j \in StageStart(doc, k)..Len(doc) :
            /\ doc[j].t = "line"
            /\ \A i \in StageStart(doc, k)..(j - 1) : doc[i].t # "line") - 1

StageDoc(doc, k) == SubSeq(doc, StageStart(doc, k), StageEnd(doc, k))

IsHole(arg) == arg.value.kind = "Var" /\ arg.value.name = CAPTURE_VARIABLE

\* an argument list as the source has it: ( a, _, b )
ArgList(args) ==
    group(wrap_args([i \in DOMAIN args |->
        IF IsHole(args[i]) THEN Text("_")
        ELSE Leaf(args[i].value.name, args[i].value.location.start)]))

IsCaptureStage(e) == e.kind = "Fn" /\ e.is_capture

\* the stages of the pipeline that are captures of a call, with their calls
CaptureStages ==
    {k \in 1..(Len(input.expressions) - 1) :
        IsCaptureStage(input.expressions[k + 1])}

CapturedCall(k) == input.expressions[k + 1].body[1].expression

FunDoc(k) == Leaf(CapturedCall(k).fun.name, CapturedCall(k).fun.location.start)

\* C8 as stated: a hole that is the sole argument is omitted from the
\* printed call, which keeps its (now empty) argument list
C8_SoleHolePrintsCall ==
    (pc = "done" /\ input.kind = "PipeLine") =>
        \A k \in CaptureStages :
            (Len(CapturedCall(k).arguments) = 1
             /\ IsHole(CapturedCall(k).arguments[1]))
            => StageDoc(out, k) = FunDoc(k) \o ArgList(<<>>)

\* C8: a stage that is a capture of a call prints the function followed by
\* the arguments after the hole when the hole is the first of several
\* arguments, the function followed by every argument, `_` included, when
\* the hole is not the first argument, and the function alone, without any
\* argument list, when the hole is the sole argument.
C8_PipeCapture ==
    (pc = "done" /\ input.kind = "PipeLine") =>
        \A k \in CaptureStages :
            LET args == CapturedCall(k).arguments
            IN  StageDoc(out, k) =
                  IF IsHole(args[1]) /\ Len(args) = 1 THEN FunDoc(k)
                  ELSE IF IsHole(args[1])
                  THEN FunDoc(k) \o ArgList(Tail(args))
                  ELSE FunDoc(k) \o ArgList(args)

\* C8 witness: x |> f(_, a, b) |> f(_) has been lowered
C8_Witness ==
    /\ pc = "done"
    /\ input = PipeLine(<<Var("x", 0), Stage("hole_first_of_three", 10),
                          Stage("hole_only", 20)>>)
    /\ StageDoc(out, 1) = Leaf("f", 10)
                          \o ArgList(<<Arg("a", 14), Arg("b", 16)>>)
    /\ StageDoc(out, 2) = Leaf("f", 20)

\* the first leaf of a document
FirstLeaf(doc) ==
    doc[CHOOSE i \in DOMAIN doc :
            /\ doc[i].t = "leaf"
            /\ \A j \in 1..(i - 1) : doc[j].t # "leaf"]

\* the token before token i, wrappers aside, is a newline
PrecededByLine(doc, i) ==
    \E j \in 1..(i - 1) :
        /\ doc[j].t = "line"
        /\ \A h \in (j + 1)..(i - 1) : doc[h].t \in Brackets

\* C9: a pipeline of n expressions lowers to one force-broken document
\* holding the first expression and then exactly n - 1 stages in source
\* order, each started by a newline and the prefix `|> `.
C9_PipelineForceBroken ==
    (pc = "done" /\ input.kind = "PipeLine") =>
        /\ out[1].t = "force_break"
        /\ \A j \in 1..(Len(out) - 1) : Depth(out, j) >= 1
        /\ Depth(out, Len(out)) = 0
        /\ Cardinality(PipeIdx(out)) = Len(input.expressions) - 1
        /\ FirstLeaf(SubSeq(out, 1, NthPipe(out, 1))).n
               = input.expressions[1].location.start
        /\ \A k \in 1..(Len(input.expressions) - 1) :
             /\ PrecededByLine(out, NthPipe(out, k))
             /\ FirstLeaf(StageDoc(out, k)).n
                    = input.expressions[k + 1].location.start

\* C9 witness: a pipeline of three expressions with a comment before its
\* last stage has been lowered
C9_Witness ==
    /\ pc = "done"
    /\ input.kind = "PipeLine"
    /\ Len(input.expressions) = 3
    /\ table.comments = <<Comment(19)>>
    /\ comments = <<>>
    /\ Cardinality(PipeIdx(out)) = 2
    /\ \E i \in DOMAIN out : out[i] = Tok("comment", "//", 19)

-----------------------------------------------------------------------------
(* SpecModule: module() on a module of up to two definitions.               *)
(* Definition i lies at offsets 10i .. 10i + 9: its head at 10i, the       *)
(* statement or constructor it holds at 10i + 4, its closing brace at      *)
(* 10i + 8.  Trivia may stand on the two lines before the head (10i - 2,   *)
(* 10i - 1), before the statement or constructor (10i + 3) and before the  *)
(* closing brace (10i + 6), and on the last line of the file.              *)

DefinitionKinds == {"import", "function", "custom_type"}

DefinitionAt(kind, at) ==
    CASE kind = "import" -> Import("m", at)
      [] kind = "function" ->
           Function("f", <<Expression(Var("v", at + 4))>>, at, at + 8)
      [] kind = "custom_type" ->
           CustomType("T", <<RecordConstructor("A", <<>>, at + 4, at + 5)>>,
                      at, at + 8)

ModuleLengths == 0..2

Modules ==
    {[i \in 1..n |-> TargetedDefinition(DefinitionAt(kinds[i], 10 * i))] :
        n \in ModuleLengths, kinds \in [1..2 -> DefinitionKinds]}

ModuleSlots(n) ==
    UNION {{10 * i - 2, 10 * i - 1, 10 * i + 3, 10 * i + 6} : i \in 1..n}
    \cup {10 * (n + 1) - 1}

\* the trivia tables of a source with at most MaxTrivia pieces of trivia
TriviaOver(slots, most) ==
    {[o \in slots |-> IF o \in DOMAIN placed THEN placed[o] ELSE "none"] :
        placed \in UNION {[S -> TriviaKinds \ {"none"}] :
                            S \in {T \in SUBSET slots : Cardinality(T) <= most}}}

InitModule ==
    /\ input \in Modules
    /\ \E kinds \in TriviaOver(ModuleSlots(Len(input)), MaxTrivia) :
          table = from_extra(kinds)
    /\ comments = table.comments
    /\ doc_comments = table.doc_comments
    /\ module_comments = table.module_comments
    /\ empty_lines = table.empty_lines
    /\ pc = "module"
    /\ documents = <<>>
    /\ previous_was_import = FALSE
    /\ out = <<>>
    /\ last = NoCall
    /\ seen = NoneSeen

\* the number of definitions module() has lowered so far
Lowered == (Len(documents) + 1) \div 2

\* one turn of the loop of module(): for definition in &module.definitions
ModuleDefinition ==
    /\ pc = "module"
    /\ Lowered < Len(input)
    /\ LET definition_ == input[Lowered + 1]
           is_import == definition_.definition.kind = "Import"
           r == targeted_definition(Self, definition_)
       IN  /\ documents' = documents
                           \o separator(documents, previous_was_import, is_import)
                           \o <<r.doc>>
           /\ previous_was_import' = is_import
           /\ Store(r.self)
    /\ UNCHANGED <<table, input, pc, out, last, seen>>

\* the rest of module(), after the loop
ModuleEnd ==
    /\ pc = "module"
    /\ Lowered = Len(input)
    /\ LET r == module_end(Self, documents)
       IN  /\ out' = r.doc
           /\ Store(r.self)
    /\ pc' = "done"
    /\ UNCHANGED <<table, input, documents, previous_was_import, last, seen>>

NextModule == ModuleDefinition \/ ModuleEnd

SpecModule == InitModule /\ [][NextModule]_vars

-----------------------------------------------------------------------------
(* Properties of module() (SpecModule) *)

\* how many times the comment `prefix content` stands in a document
Emitted(doc, prefix, content) ==
    Cardinality({i \in DOMAIN doc : doc[i] = Tok("comment", prefix, content)})

CommentTokens(doc) == {i \in DOMAIN doc : doc[i].t = "comment"}

\* C1: once module() is done, every //, /// and //// comment of the trivia
\* table stands in the module document exactly once and the document holds
\* no other comment; while the definitions are lowered none is emitted
\* twice.
C1_EveryCommentOnce ==
    /\ pc = "done" =>
        /\ \A i \in DOMAIN table.comments :
              Emitted(out, "//", table.comments[i].content) = 1
        /\ \A i \in DOMAIN table.doc_comments :
              Emitted(out, "///", table.doc_comments[i].content) = 1
        /\ \A i \in DOMAIN table.module_comments :
              Emitted(out, "////", table.module_comments[i].content) = 1
        /\ Cardinality(CommentTokens(out))
              = Len(table.comments) + Len(table.doc_comments)
                + Len(table.module_comments)
    /\ \A i \in DOMAIN table.comments :
          Emitted(concat(documents), "//", table.comments[i].content) <= 1
    /\ \A i \in DOMAIN table.doc_comments :
          Emitted(concat(documents), "///", table.doc_comments[i].content) <= 1

\* C1 witness: a module whose source holds a doc comment inside a function
\* body and a comment after the last definition has been lowered
C1_Witness ==
    /\ pc = "done"
    /\ Len(input) = 2
    /\ input[1].definition.kind = "Function"
    /\ table.doc_comments = <<Comment(16)>>
    /\ table.comments = <<Comment(29)>>
    /\ Emitted(out, "///", 16) = 1
    /\ Emitted(out, "//", 29) = 1

\* comment tokens of the document stand in the order of their offsets
InSourceOrder(doc, idx) ==
    \A i, j \in idx : i < j => doc[i].n < doc[j].n

\* C2 as stated: any two comments, of any kind, stand in the formatted
\* module in the order of their offsets in the source
C2_AnyKindOrder ==
    pc = "done" => InSourceOrder(out, CommentTokens(out))

\* C2: any two comments of the same kind (two //, two /// or two ////)
\* stand in the formatted module in the order of their offsets in the
\* source.
C2_SameKindOrder ==
    /\ pc = "done" =>
          \A prefix \in {"//", "///", "////"} :
              InSourceOrder(out, {i \in CommentTokens(out) : out[i].s = prefix})
    /\ InSourceOrder(concat(documents),
                     {i \in CommentTokens(concat(documents)) :
                         concat(documents)[i].s = "//"})

\* C2 witness: two // comments, one before a function and one inside its
\* body, have been printed
C2_Witness ==
    /\ pc = "done"
    /\ input # <<>>
    /\ input[1].definition.kind = "Function"
    /\ table.comments = <<Comment(9), Comment(13)>>
    /\ Emitted(out, "//", 9) = 1
    /\ Emitted(out, "//", 13) = 1

RECURSIVE Contains(_, _)
Contains(doc, part) ==
    \/ TakeFirst(doc, Len(part)) = part
    \/ doc # <<>> /\ Contains(Tail(doc), part)

\* C6: module() pushes no separator before the first definition, a single
\* newline between two consecutive imports and two newlines (one blank
\* line) between any other two consecutive definitions, whatever blank
\* lines the source has; the module document holds them as pushed.
C6_DefinitionSeparators ==
    /\ documents # <<>> => documents[1] \notin {lines(1), lines(2)}
    /\ \A j \in DOMAIN documents :
          j % 2 = 0 =>
             documents[j] =
                 IF /\ input[j \div 2].definition.kind = "Import"
                    /\ input[j \div 2 + 1].definition.kind = "Import"
                 THEN lines(1) ELSE lines(2)
    /\ \A j \in DOMAIN documents :
          j % 2 = 1 =>
             \E i \in DOMAIN documents[j] :
                 /\ documents[j][i].t = "leaf"
                 /\ documents[j][i].n = input[(j + 1) \div 2].definition.location.start
    /\ pc = "done" => Contains(out, concat(documents))

\* C6 witness: two imports with a blank line between them in the source
\* are one newline apart
C6_Witness ==
    /\ pc = "done"
    /\ Len(documents) = 3
    /\ input[1].definition.kind = "Import"
    /\ input[2].definition.kind = "Import"
    /\ table.empty_lines = <<18>>
    /\ documents[2] = lines(1)

\* where the comment `prefix content` stands in a document
CommentIdx(doc, prefix, content) ==
    {i \in DOMAIN doc : doc[i] = Tok("comment", prefix, content)}

\* where the definitions end in the module document: 0 for no definition
DefinitionsEnd(doc, definitions) ==
    IF definitions = <<>> THEN 0
    ELSE LET at == {k \in 0..(Len(doc) - Len(definitions)) :
                       SubSeq(doc, k + 1, k + Len(definitions)) = definitions}
         IN  IF at = {} THEN Len(doc) + 1
             ELSE (CHOOSE k \in at : TRUE) + Len(definitions)

\* C20: in the step that ends module(), every doc comment and comment
\* still in the cursors is printed after all the definitions, every such
\* doc comment as a `///` line before every such comment as a `//` line,
\* and the comment cursor is empty after the step.
C20_LeftoversAfterDefinitions ==
    [][(pc = "module" /\ pc' = "done") =>
          LET end == DefinitionsEnd(out', concat(documents))
              docs == UNION {CommentIdx(out', "///", doc_comments[i].content) :
                                i \in DOMAIN doc_comments}
              rest == UNION {CommentIdx(out', "//", comments[i].content) :
                                i \in DOMAIN comments}
          IN  /\ end <= Len(out')
              /\ \A i \in DOMAIN doc_comments :
                    CommentIdx(out', "///", doc_comments[i].content) # {}
              /\ \A i \in DOMAIN comments :
                    CommentIdx(out', "//", comments[i].content) # {}
              /\ \A i \in docs \cup rest : i > end
              /\ \A i \in docs : \A j \in rest : i < j
              /\ comments' = <<>>]_vars

\* C20 witness: a module of a function whose body holds a doc comment,
\* with a comment after it, has been lowered with both printed after the
\* function, the doc comment first
C20_Witness ==
    /\ pc = "done"
    /\ Len(input) = 1
    /\ input[1].definition.kind = "Function"
    /\ table.doc_comments = <<Comment(13)>>
    /\ table.comments = <<Comment(19)>>
    /\ comments = <<>>
    /\ \E i \in CommentIdx(out, "///", 13) :
          \E j \in CommentIdx(out, "//", 19) :
              DefinitionsEnd(out, concat(documents)) < i /\ i < j

-----------------------------------------------------------------------------
(* SpecBody: statements() on the body of a function, case() on a case      *)
(* expression and custom_type() on a type, each over 2..MaxItems items.    *)
(* Item j starts at offset 10j.  The source may have a blank line inside   *)
(* the brackets of an item, after its last argument, and on the line after *)
(* an item; it has no comments.                                            *)

StatementKinds == {"var", "call", "let"}

StatementAt(kind, at) ==
    CASE kind = "var" -> Expression(Var("v", at))
      [] kind = "call" ->
           Expression(Call(Var("f", at), <<Arg("a", at + 2)>>, at + 6))
      [] kind = "let" -> Assignment(Variable("p", at + 2), Var("v", at + 4), at)

ClauseKinds == {"var", "call"}

ClauseAt(kind, at) ==
    CASE kind = "var" -> Clause(<<Variable("p", at)>>, Var("v", at + 2), at)
      [] kind = "call" ->
           Clause(<<Variable("p", at)>>,
                  Call(Var("f", at + 2), <<Arg("a", at + 4)>>, at + 8), at)

ConstructorKinds == {"plain", "record"}

ConstructorAt(kind, at) ==
    CASE kind = "plain" -> RecordConstructor("A", <<>>, at, at + 1)
      [] kind = "record" ->
           RecordConstructor("A", <<RecordConstructorArg("Int", at + 2)>>,
                             at, at + 6)

ItemsOf(kinds, At(_, _)) ==
    {[j \in 1..n |-> At(ks[j], 10 * j)] :
        n \in 2..MaxItems, ks \in [1..MaxItems -> kinds]}

Bodies ==
    {[shape |-> "statements", items |-> items] :
        items \in ItemsOf(StatementKinds, StatementAt)}
    \cup {[shape |-> "case", items |-> items] :
        items \in ItemsOf(ClauseKinds, ClauseAt)}
    \cup {[shape |-> "custom_type", items |-> items] :
        items \in ItemsOf(ConstructorKinds, ConstructorAt)}

\* where the source of an item may have a blank line: two bytes before the
\* closing bracket of an item that has brackets, and on the line after it
BlankSlots(items) ==
    UNION {{items[j].location.end + 1}
           \cup (IF items[j].location.end - items[j].location.start >= 6
                 THEN {items[j].location.end - 2} ELSE {}) :
           j \in DOMAIN items}

InitBody ==
    /\ input \in Bodies
    /\ \E blank \in SUBSET BlankSlots(input.items) :
          table = from_extra([o \in BlankSlots(input.items) |->
                                 IF o \in blank THEN "empty" ELSE "none"])
    /\ comments = table.comments
    /\ doc_comments = table.doc_comments
    /\ module_comments = table.module_comments
    /\ empty_lines = table.empty_lines
    /\ pc = input.shape
    /\ documents = <<>>
    /\ previous_was_import = FALSE
    /\ out = <<>>
    /\ last = NoCall
    /\ seen = NoneSeen

Lowered_(r) ==
    /\ out' = r.doc
    /\ Store(r.self)
    /\ pc' = "done"
    /\ UNCHANGED <<table, input, documents, previous_was_import, last, seen>>

\* Formatter::statements(body)
LowerStatements ==
    /\ pc = "statements"
    /\ Lowered_(statements(Self, input.items))

\* Formatter::case(subjects, clauses)
LowerCase ==
    /\ pc = "case"
    /\ Lowered_(case_(Self, <<Var("s", 2)>>, input.items))

\* Formatter::custom_type(ct)
LowerCustomType ==
    /\ pc = "custom_type"
    /\ Lowered_(custom_type(Self,
                    CustomType("T", input.items, 0, 10 * (Len(input.items) + 1))))

NextBody == LowerStatements \/ LowerCase \/ LowerCustomType

SpecBody == InitBody /\ [][NextBody]_vars

-----------------------------------------------------------------------------
(* Properties of the bodies (SpecBody) *)

\* the offset of the first leaf an item prints
ItemHead(item) ==
    IF "kind" \in DOMAIN item /\ item.kind = "Assignment"
    THEN item.pattern.location.start
    ELSE item.location.start

LeafIdx(doc, id) == CHOOSE i \in DOMAIN doc : doc[i].t = "leaf" /\ doc[i].n = id

\* the newlines printed before token i: 1, or 2 for a blank line
NewlinesBefore(doc, i) ==
    doc[CHOOSE j \in 1..(i - 1) :
            /\ doc[j].t = "line"
            /\ \A h \in (j + 1)..(i - 1) : doc[h].t # "line"].n

\* the source has a blank line after the end of item a and before item b
BlankBetween(a, b) ==
    \E k \in DOMAIN table.empty_lines :
        /\ table.empty_lines[k] >= a.location.end
        /\ table.empty_lines[k] < b.location.start

\* C5: between two consecutive statements, clauses or constructors the
\* output has one blank line when the source has blank lines between them
\* and none when the source has none between them.
C5_BlankLinesBetweenItems ==
    pc = "done" =>
        \A j \in 1..(Len(input.items) - 1) :
            NewlinesBefore(out, LeafIdx(out, ItemHead(input.items[j + 1])))
                = IF BlankBetween(input.items[j], input.items[j + 1])
                  THEN 2 ELSE 1

-----------------------------------------------------------------------------
(* Float literals *)

\* str::split('.'): the n-th part of value, counted from 0
RECURSIVE SplitPart(_, _, _)
SplitPart(value, ch, n) ==
    IF value = <<>> THEN <<>>
    ELSE IF Head(value) = ch
         THEN (IF n = 0 THEN <<>> ELSE SplitPart(Tail(value), ch, n - 1))
         ELSE (IF n = 0 THEN <<Head(value)>> ELSE <<>>)
              \o SplitPart(Tail(value), ch, n)

\* chars().position(|ch| ch == c).unwrap_or(len), as a count of characters
RECURSIVE PositionOr(_, _)
PositionOr(value, ch) ==
    IF value = <<>> \/ Head(value) = ch THEN 0
    ELSE 1 + PositionOr(Tail(value), ch)

\* mutant of trim_end_matches: one matching character is removed
trim_end_matches_Once(value, ch) ==
    IF value # <<>> /\ value[Len(value)] = ch
    THEN SubSeq(value, 1, Len(value) - 1)
    ELSE value

\* str::trim_end_matches(ch)
RECURSIVE trim_end_matches(_, _)
trim_end_matches(value, ch) ==
    IF value # <<>> /\ value[Len(value)] = ch
    THEN trim_end_matches(SubSeq(value, 1, Len(value) - 1), ch)
    ELSE value

\* mutant of float: the zeros are trimmed from the whole text after the
\* dot, the exponent included
float_TrimsExponent(value) ==
    LET integer_part == SplitPart(value, ".", 0)
        fp_part == SplitPart(value, ".", 1)
        trimmed == trim_end_matches(fp_part, "0")
    IN  underscore_integer_string(integer_part) \o <<".">>
        \o (IF trimmed = <<>> THEN <<"0">> ELSE trimmed)

\* Formatter::float(value), as the string it prints
float(value) ==
    LET integer_part == SplitPart(value, ".", 0)
        fp_part == SplitPart(value, ".", 1)
        integer_doc == underscore_integer_string(integer_part)
        dot_doc == <<".">>
        at == PositionOr(fp_part, "e")
        fp_part_fractional == SubSeq(fp_part, 1, at)
        fp_part_scientific == DropFirst(fp_part, at)
        trimmed == trim_end_matches(fp_part_fractional, "0")
        fp_doc == IF trimmed = <<>> THEN <<"0">> ELSE trimmed
    IN  integer_doc \o dot_doc \o fp_doc \o fp_part_scientific

-----------------------------------------------------------------------------
(* SpecFloat: float() on a float literal.  A float literal is a run of      *)
(* digits, a dot, a run of digits that may be empty, and an optional        *)
(* exponent; an underscore may stand between two digits of either run.      *)

\* the most characters of the fraction of a float literal
MaxFraction == 4

FractionChars == {"0", "5", "_"}

\* an underscore stands between two digits
WellFormedRun(run) ==
    \A i \in DOMAIN run :
        run[i] = "_" => /\ 1 < i /\ run[i - 1] # "_"
                        /\ i < Len(run) /\ run[i + 1] # "_"

Fractions ==
    {run \in UNION {[1..n -> FractionChars] : n \in 0..MaxFraction} :
        WellFormedRun(run)}

IntegerParts ==
    {<<"1">>, <<"-", "1", "0">>, <<"1", "2", "3", "4", "5">>,
     <<"1", "_", "0", "0", "0">>, <<"-", "1", "2", "3", "_", "4", "5", "6">>}

Exponents == {<<>>, <<"e", "1", "0">>, <<"e", "-", "3">>, <<"e", "0">>}

FloatLiterals ==
    {i \o <<".">> \o f \o e :
        i \in IntegerParts, f \in Fractions, e \in Exponents}

InitFloat ==
    /\ input \in FloatLiterals
    /\ pc = "float"
    /\ out = <<>>
    /\ table = from_extra([o \in {} |-> "none"])
    /\ comments = <<>>
    /\ doc_comments = <<>>
    /\ module_comments = <<>>
    /\ empty_lines = <<>>
    /\ documents = <<>>
    /\ previous_was_import = FALSE
    /\ last = NoCall
    /\ seen = NoneSeen

\* Formatter::float(value) is called on the literal
FormatFloat ==
    /\ pc = "float"
    /\ out' = float(input)
    /\ pc' = "done"
    /\ UNCHANGED <<table, comments, doc_comments, module_comments, empty_lines,
                   input, documents, previous_was_import, last, seen>>

NextFloat == FormatFloat

SpecFloat == InitFloat /\ [][NextFloat]_vars

-----------------------------------------------------------------------------
(* Properties of float (SpecFloat) *)

\* the text of a float literal after its dot
AfterDot(value) == DropFirst(value, PositionOr(value, ".") + 1)

\* the fraction of a float literal: from the dot to the `e` or the end
FractionOf(value) ==
    SubSeq(AfterDot(value), 1, PositionOr(AfterDot(value), "e"))

\* the exponent of a float literal: from the `e` on, empty without one
ExponentOf(value) ==
    DropFirst(AfterDot(value), PositionOr(AfterDot(value), "e"))

\* the digits of a run, without its underscores
DigitsOf(run) == SelectSeq(run, LAMBDA ch : ch # "_")

AllZero(run) == \A i \in DOMAIN run : run[i] = "0"

\* C11: float(value) prints a fraction that has at least one digit, whose
\* digits are the digits of the literal's fraction without its trailing
\* zeros (a single 0 when no digit is left), so that no zero ends a fraction
\* of two or more digits; the exponent from `e` on is printed unchanged.
C11_FloatTrimsTrailingZeros ==
    pc = "done" =>
        LET was == DigitsOf(FractionOf(input))
            now == DigitsOf(FractionOf(out))
        IN  /\ ExponentOf(out) = ExponentOf(input)
            /\ Len(now) >= 1
            /\ Len(now) > 1 => now[Len(now)] # "0"
            /\ IF AllZero(was)
               THEN now = <<"0">>
               ELSE /\ Len(now) <= Len(was)
                    /\ now = SubSeq(was, 1, Len(now))
                    /\ AllZero(DropFirst(was, Len(now)))

\* C11 for the literals written without an underscore in the fraction: the
\* fraction printed is the literal's without its trailing zeros, a single 0
\* when nothing is left, and the exponent is printed unchanged.
C11_PlainFractions ==
    (pc = "done" /\ Count(FractionOf(input), "_") = 0) =>
        /\ ExponentOf(out) = ExponentOf(input)
        /\ FractionOf(out) # <<>>
        /\ \/ FractionOf(out) = <<"0">> /\ AllZero(FractionOf(input))
           \/ /\ FractionOf(out)[Len(FractionOf(out))] # "0"
              /\ \E zeros \in 0..MaxFraction :
                    /\ Len(FractionOf(input)) = Len(FractionOf(out)) + zeros
                    /\ FractionOf(out) =
                           SubSeq(FractionOf(input), 1, Len(FractionOf(out)))
                    /\ AllZero(DropFirst(FractionOf(input),
                                         Len(FractionOf(out))))

-----------------------------------------------------------------------------
(* Formatting the formatted text again.  The lexer's number rule decides    *)
(* whether the printed text is a float literal once more: a run of digits   *)
(* takes an underscore only when a digit follows it, the rule the literals  *)
(* of FloatLiterals are drawn by.  A text that is no literal fails to       *)
(* parse, and pretty returns Error::Parse without writing.                  *)

\* the lexer takes the whole text as one float literal
is_float_literal(text) == WellFormedRun(FractionOf(text))

\* pretty(writer, src, path) on the text printed by the first pass: what is
\* written, no text at all after a parse error
FormatAgain ==
    /\ pc = "done"
    /\ IF is_float_literal(out)
       THEN /\ documents' = <<float(out)>>
            /\ pc' = "formatted_again"
       ELSE /\ documents' = <<>>
            /\ pc' = "parse_error"
    /\ UNCHANGED <<table, comments, doc_comments, module_comments, empty_lines,
                   input, out, previous_was_import, last, seen>>

NextFormatTwice == FormatFloat \/ FormatAgain

SpecFormatTwice == InitFloat /\ [][NextFormatTwice]_vars

\* C19: formatting is idempotent; the text printed for a float literal is
\* formatted again to the same text, format(format(s)) = format(s).
C19_FormatIdempotent ==
    pc \in {"formatted_again", "parse_error"} =>
        /\ pc = "formatted_again"
        /\ documents = <<out>>

\* formatting again the text of a literal written without an underscore in
\* its fraction gives the same text
C19_PlainFractionsIdempotent ==
    (pc \in {"formatted_again", "parse_error"}
        /\ Count(FractionOf(input), "_") = 0) =>
        /\ pc = "formatted_again"
        /\ documents = <<out>>

-----------------------------------------------------------------------------
(* The layout engine: Document::pretty_print(width, writer).  Every group   *)
(* is rendered Flat or Break by one decision; a group with a forced break   *)
(* inside is rendered Break.  Whether a group without one fits depends on   *)
(* the widths of the texts, which the model leaves open: a layout is any    *)
(* choice of Flat or Break for the groups.                                  *)

\* the number of wrappers open after each token of doc, from token i on,
\* `open` of them being open before it
RECURSIVE DepthsFrom(_, _, _)
DepthsFrom(doc, i, open) ==
    IF i > Len(doc) THEN <<>>
    ELSE LET now == CASE doc[i].t = "end" -> open - 1
                      [] doc[i].t \in Brackets \ {"end"} -> open + 1
                      [] OTHER -> open
         IN  <<now>> \o DepthsFrom(doc, i + 1, now)

Depths(doc) == DepthsFrom(doc, 1, 0)

\* the token that closes the wrapper opened by token i, d being Depths(doc)
Closes(d, i) ==
    CHOOSE j \in (i + 1)..Len(d) :
        /\ d[j] = d[i] - 1
        /\ \A k \in i..(j - 1) : d[k] >= d[i]

GroupIdx(doc) == {i \in DOMAIN doc : doc[i].t = "group"}

FlexIdx(doc) == {i \in DOMAIN doc : doc[i].t = "flex_break"}

\* for every group of doc, the token that closes it
GroupEnds(doc) ==
    LET d == Depths(doc) IN [g \in GroupIdx(doc) |-> Closes(d, g)]

\* the innermost group around token i, 0 for the top of the document;
\* ends is GroupEnds(doc)
GroupAt(ends, i) ==
    LET around == {g \in DOMAIN ends : g < i /\ i < ends[g]}
    IN  IF around = {} THEN 0
        ELSE CHOOSE g \in around : \A h \in around : h <= g

\* a forced break lies inside group g
ForcedBroken(doc, ends, g) ==
    \E f \in DOMAIN doc : doc[f].t = "force_break" /\ g < f /\ f < ends[g]

\* the layouts of a document: TRUE at a group (0: the top) for Break mode,
\* TRUE at a flex break for one that does not fit on the current line
Layouts(doc, ends) ==
    {broken \in [GroupIdx(doc) \cup FlexIdx(doc) \cup {0} -> BOOLEAN] :
        \A g \in GroupIdx(doc) : ForcedBroken(doc, ends, g) => broken[g]}

\* what token i prints under a layout, as a sequence of strings; "\n" is a
\* newline followed by the indentation
Printed(doc, ends, broken, i) ==
    CASE doc[i].t \in {"text", "leaf"} -> <<doc[i].s>>
      [] doc[i].t = "string" -> doc[i].chars
      [] doc[i].t = "comment" -> <<doc[i].s, doc[i].n>>
      [] doc[i].t = "line" -> [k \in 1..doc[i].n |-> "\n"]
      [] doc[i].t = "break" ->
           IF broken[GroupAt(ends, i)] THEN <<doc[i].s, "\n">>
           ELSE <<doc[i].unbroken>>
      [] doc[i].t = "flex_break" ->
           IF broken[GroupAt(ends, i)] /\ broken[i] THEN <<doc[i].s, "\n">>
           ELSE <<doc[i].unbroken>>
      [] OTHER -> <<>>

\* pretty_print under a layout: the document, the layout, and what each
\* token printed
pretty_print(doc, ends, broken) ==
    [document |-> doc, broken |-> broken,
     printed |-> [i \in DOMAIN doc |-> Printed(doc, ends, broken, i)]]

-----------------------------------------------------------------------------
(* SpecRender: an argument list, tuple, list or bit array is lowered by     *)
(* expr, a constant list, tuple or bit array by const_expr, a bit array     *)
(* pattern by pattern, and the document is printed under every layout.      *)
(*  The construct starts at offset 10, its      *)
(* element k at 10k + 10, the tail of a list at 40.                         *)

\* the most elements of a construct
MaxElements == 2

ElementKinds == {"var", "int", "list", "tuple", "call", "bit_array"}

ElementAt(kind, at) ==
    CASE kind = "var" -> Var("a", at)
      [] kind = "int" -> IntLit(<<"1">>, at)
      [] kind = "list" -> List(<<Var("b", at + 1)>>, NoTail, at, at + 3)
      [] kind = "tuple" -> Tuple(<<Var("b", at + 2)>>, at, at + 4)
      [] kind = "call" ->
           Call(Var("g", at), <<CallArg("", Var("b", at + 2), at + 2),
                               CallArg("", Var("c", at + 4), at + 4)>>,
                at + 6)
      [] kind = "bit_array" ->
           BitArray(<<BitArraySegment(Var("b", at + 2))>>, at, at + 5)

ElementLists ==
    UNION {{[k \in 1..n |-> ElementAt(kinds[k], 10 * k + 10)] :
               kinds \in [1..n -> ElementKinds]} : n \in 1..MaxElements}

ConstructKinds == {"call", "tuple", "list", "list_with_tail", "bit_array"}

ConstructOf(kind, elements) ==
    CASE kind = "call" ->
           Call(Var("f", 10),
                [k \in DOMAIN elements |->
                    CallArg("", elements[k], elements[k].location.start)],
                50)
      [] kind = "tuple" -> Tuple(elements, 10, 50)
      [] kind = "list" -> List(elements, NoTail, 10, 50)
      [] kind = "list_with_tail" -> List(elements, Var("rest", 40), 10, 50)
      [] kind = "bit_array" ->
           BitArray([k \in DOMAIN elements |-> BitArraySegment(elements[k])],
                    10, 50)

Constructs ==
    {ConstructOf(kind, elements) :
        kind \in ConstructKinds, elements \in ElementLists}

ConstantElements ==
    {ConstantInt(<<"1">>), ConstantList(<<ConstantInt(<<"2">>)>>),
     ConstantTuple(<<ConstantInt(<<"3">>)>>)}

ConstantConstructs ==
    UNION {{ConstantList(elements), ConstantTuple(elements),
            ConstantBitArray([k \in DOMAIN elements |->
                                 ConstantSegment(elements[k])])} :
              elements \in UNION {[1..n -> ConstantElements] :
                                     n \in 1..MaxElements}}

PatternKinds == {"variable", "int"}

PatternAt(kind, at) ==
    CASE kind = "variable" -> Variable("a", at)
      [] kind = "int" -> PatternInt(<<"1">>, at)

\* the bit array patterns of 1..MaxElements segments
PatternConstructs ==
    UNION {{PatternBitArray([k \in 1..n |->
                                BitArraySegment(PatternAt(kinds[k],
                                                          10 * k + 10))],
                            10, 50) :
               kinds \in [1..n -> PatternKinds]} : n \in 1..MaxElements}

\* no trivia, or one comment before the first or the second element, or
\* before the tail of the list
ConstructTrivia ==
    {NoTrivia} \cup {[o \in {at} |-> "comment"] : at \in {19, 29, 39}}

InitRender ==
    /\ \/ /\ input \in Constructs
          /\ pc = "expr"
          /\ \E kinds \in ConstructTrivia : table = from_extra(kinds)
       \/ /\ input \in ConstantConstructs
          /\ pc = "const_expr"
          /\ table = from_extra(NoTrivia)
       \/ /\ input \in PatternConstructs
          /\ pc = "pattern"
          /\ \E kinds \in ConstructTrivia : table = from_extra(kinds)
    /\ comments = table.comments
    /\ doc_comments = table.doc_comments
    /\ module_comments = table.module_comments
    /\ empty_lines = table.empty_lines
    /\ documents = <<>>
    /\ previous_was_import = FALSE
    /\ out = <<>>
    /\ last = NoCall
    /\ seen = NoneSeen

\* Formatter::expr(input)
LowerConstruct ==
    /\ pc = "expr"
    /\ LET r == expr(Self, input)
       IN  /\ out' = r.doc
           /\ Store(r.self)
    /\ pc' = "pretty_print"
    /\ UNCHANGED <<table, input, documents, previous_was_import, last, seen>>

\* Formatter::const_expr(input)
LowerConstant ==
    /\ pc = "const_expr"
    /\ out' = const_expr(input)
    /\ pc' = "pretty_print"
    /\ UNCHANGED <<table, comments, doc_comments, module_comments, empty_lines,
                   input, documents, previous_was_import, last, seen>>

\* Formatter::pattern(input)
LowerPattern ==
    /\ pc = "pattern"
    /\ LET r == pattern(Self, input)
       IN  /\ out' = r.doc
           /\ Store(r.self)
    /\ pc' = "pretty_print"
    /\ UNCHANGED <<table, input, documents, previous_was_import, last, seen>>

\* Document::pretty_print(80, writer), under one of the layouts
PrettyPrint ==
    /\ pc = "pretty_print"
    /\ LET ends == GroupEnds(out)
       IN  \E broken \in Layouts(out, ends) :
               out' = pretty_print(out, ends, broken)
    /\ pc' = "done"
    /\ UNCHANGED <<table, comments, doc_comments, module_comments, empty_lines,
                   input, documents, previous_was_import, last, seen>>

NextRender == LowerConstruct \/ LowerConstant \/ LowerPattern \/ PrettyPrint

SpecRender == InitRender /\ [][NextRender]_vars

-----------------------------------------------------------------------------
(* Properties of the trailing comma (SpecRender) *)

OpeningDelimiters == {"(", "[", "<<"}

ClosingDelimiter(open) ==
    CASE open = "(" -> ")" [] open = "[" -> "]" [] open = "<<" -> ">>"

\* the opening delimiters of the non-empty constructs of a document
Openers(doc) ==
    {i \in DOMAIN doc : doc[i].t = "break" /\ doc[i].s \in OpeningDelimiters}

\* the closing delimiter of the construct opened at token i: the first one
\* after it outside the indentation the opener and the elements stand in;
\* d is Depths(doc)
Closer(doc, d, i) ==
    LET closers == {j \in (i + 1)..Len(doc) :
                       /\ doc[j] = Text(ClosingDelimiter(doc[i].s))[1]
                       /\ d[j] = d[i] - 1}
    IN  CHOOSE j \in closers : \A k \in closers : j <= k

\* the construct opened at token i is a list with a tail: its `..` stands
\* among the elements, behind its comments if it has any
HasTail(doc, d, i) ==
    \E k \in (i + 1)..Closer(doc, d, i) :
        /\ doc[k] = Text("..")[1]
        /\ \/ d[k] = d[i]
           \/ d[k] = d[i] + 1 /\ doc[k - 1].t = "group" /\ d[k - 2] = d[i]

\* the token between the last element and the closing delimiter of the
\* construct opened at token i
AfterLastElement(doc, i) == Closer(doc, Depths(doc), i) - 1

\* C12: in every layout, for every non-empty argument list, tuple, list
\* without tail and bit array of the document, a comma is printed after the
\* last element if and only if the opening delimiter is followed by a
\* newline, that is if and only if the group of the construct is in Break
\* mode.
C12_TrailingCommaIffBroken ==
    pc = "done" =>
        LET doc == out.document
            d == Depths(doc)
            ends == GroupEnds(doc)
        IN  \A i \in Openers(doc) :
                ~HasTail(doc, d, i) =>
                    LET last_ == Closer(doc, d, i) - 1
                        newline == out.printed[i] = <<doc[i].s, "\n">>
                    IN  /\ doc[last_].t = "break"
                        /\ (out.printed[last_][1] = ",") <=> newline
                        /\ newline <=> out.broken[GroupAt(ends, i)]

\* C12 witness: a list of two elements is printed broken, with the comma
\* after its last element, while the tuple that is its second element is
\* printed flat, without one
C12_Witness ==
    /\ pc = "done"
    /\ input = List(<<Var("a", 20), Tuple(<<Var("b", 32)>>, 30, 34)>>,
                    NoTail, 10, 50)
    /\ \E i, j \in Openers(out.document) :
          /\ out.document[i].s = "[" /\ out.document[j].s = "("
          /\ out.printed[i] = <<"[", "\n">>
          /\ out.printed[AfterLastElement(out.document, i)] = <<",", "\n">>
          /\ out.printed[j] = <<"(">>
          /\ out.printed[AfterLastElement(out.document, j)] = <<"">>

-----------------------------------------------------------------------------
(* Properties of the separators (SpecRender) *)

\* the separators of the collection opened at token i: the breaks `,` that
\* stand among its elements, the one before the tail of a list included
Separators(doc, d, i) ==
    {k \in (i + 1)..(Closer(doc, d, i) - 2) :
        /\ d[k] = d[i]
        /\ doc[k].t \in {"break", "flex_break"}
        /\ doc[k].s = "," /\ doc[k].unbroken = ", "}

\* the opening delimiter of the collection the document was lowered from
Outermost(doc) == CHOOSE i \in Openers(doc) : \A j \in Openers(doc) : i <= j

\* a value of the spec's simple kind: a number, a string, a bare
\* identifier, or a list or tuple of those
IsSimpleValue(value) ==
    IF value.kind = "Variable" THEN TRUE ELSE is_simple_constant(value)

\* the input is a list or a bit array, of expressions, constants or patterns
IsCollection(construct) == construct.kind \in {"List", "BitArray"}

\* every element of the list, or every segment value of the bit array, is
\* simple, and the list has no tail
AllSimple(construct) ==
    IF construct.kind = "List"
    THEN /\ \A k \in DOMAIN construct.elements :
               IsSimpleValue(construct.elements[k])
         /\ ("tail" \in DOMAIN construct => construct.tail.kind = "None")
    ELSE \A k \in DOMAIN construct.segments :
             IsSimpleValue(construct.segments[k].value)

\* the kind of break every separator of a lowered collection must be
SeparatorsAre(kind) ==
    LET d == Depths(out)
    IN  \A k \in Separators(out, d, Outermost(out)) : out[k].t = kind

\* C26 as stated: a lowered list, constant list or bit array, a bit array
\* pattern included, has flex breaks for separators exactly when every
\* element or segment value is simple (and the list has no tail), and
\* strict breaks otherwise, never both.
C26_FlexIffSimple ==
    (pc = "pretty_print" /\ IsCollection(input)) =>
        IF AllSimple(input) THEN SeparatorsAre("flex_break")
        ELSE SeparatorsAre("break")

\* C26: a lowered list, constant list or bit array of expressions or
\* constants has flex breaks for separators exactly when every element or
\* segment value is simple (and the list has no tail); in every other
\* case, and in every bit array pattern, all separators are strict breaks.
\* Strict separators print a newline each once the group of the collection
\* is broken.
C26_FlexIffSimpleExceptPatterns ==
    /\ (pc = "pretty_print" /\ IsCollection(input)) =>
          IF AllSimple(input) /\ "enum" \notin DOMAIN input
          THEN SeparatorsAre("flex_break")
          ELSE SeparatorsAre("break")
    /\ (pc = "done" /\ IsCollection(input)) =>
          LET doc == out.document
              d == Depths(doc)
              i == Outermost(doc)
          IN  \A k \in Separators(doc, d, i) :
                  (doc[k].t = "break"
                      /\ out.broken[GroupAt(GroupEnds(doc), i)]) =>
                          out.printed[k] = <<",", "\n">>

\* C26 witness: a bit array of two variables has been lowered with a flex
\* break between them
C26_Witness ==
    /\ pc = "pretty_print"
    /\ input = BitArray(<<BitArraySegment(Var("a", 20)),
                          BitArraySegment(Var("a", 30))>>, 10, 50)
    /\ table.comments = <<>>
    /\ out = group(nest(break_("<<", "<<") \o Leaf("a", 20)
                        \o flex_break(",", ", ") \o Leaf("a", 30))
                   \o break_(",", "") \o Text(">>"))

-----------------------------------------------------------------------------
(* SpecDefinition: targeted_definition() on one definition that stands at   *)
(* offset 10 and ends at 18, with or without a target, a deprecation and    *)
(* externals; trivia may stand on the two lines before it (8, 9) and        *)
(* inside it (13, 16).                                                      *)

Targets == {"None", "Erlang", "JavaScript"}

Deprecations == {NotDeprecated, Deprecated("old")}

Externals == {NoExternal, External("m", "f")}

\* a body-less function has the body [Placeholder]
FunctionBodies ==
    {<<Expression(Placeholder(14))>>,
     <<Expression(Var("x", 14))>>,
     <<Expression(Var("x", 12)), Expression(Var("y", 14))>>,
     <<Assignment(Variable("x", 12), Var("y", 14), 11)>>}

Functions ==
    {[Function("f", body, 10, 18) EXCEPT
          !.deprecation = deprecation, !.external_erlang = erlang,
          !.external_javascript = javascript] :
        body \in FunctionBodies, deprecation \in Deprecations,
        erlang \in Externals, javascript \in Externals}

Constructors ==
    {<<>>}
    \cup {<<[RecordConstructor("A", <<>>, 14, 15) EXCEPT
                 !.deprecation = deprecation]>> :
             deprecation \in {NotDeprecated, Deprecated("gone")}}

CustomTypes ==
    {[CustomType("T", constructors, 10, 18) EXCEPT
          !.deprecation = deprecation] :
        constructors \in Constructors, deprecation \in Deprecations}

TypeAliases ==
    {[TypeAlias("T", "Int", 10) EXCEPT !.deprecation = deprecation] :
        deprecation \in Deprecations}

Definitions == Functions \cup CustomTypes \cup TypeAliases \cup {Import("m", 10)}

TargetedDefinitions ==
    {[TargetedDefinition(definition_) EXCEPT !.target = target] :
        definition_ \in Definitions, target \in Targets}

InitDefinition ==
    /\ input \in TargetedDefinitions
    /\ \E kinds \in TriviaOver({8, 9, 13, 16}, MaxTrivia) :
          table = from_extra(kinds)
    /\ comments = table.comments
    /\ doc_comments = table.doc_comments
    /\ module_comments = table.module_comments
    /\ empty_lines = table.empty_lines
    /\ pc = "targeted_definition"
    /\ documents = <<>>
    /\ previous_was_import = FALSE
    /\ out = <<>>
    /\ last = NoCall
    /\ seen = NoneSeen

\* Formatter::targeted_definition(input)
LowerDefinition ==
    /\ pc = "targeted_definition"
    /\ LET r == targeted_definition(Self, input)
       IN  /\ out' = r.doc
           /\ Store(r.self)
    /\ pc' = "done"
    /\ UNCHANGED <<table, input, documents, previous_was_import, last, seen>>

NextDefinition == LowerDefinition

SpecDefinition == InitDefinition /\ [][NextDefinition]_vars

-----------------------------------------------------------------------------
(* Properties of the definitions (SpecDefinition) *)

\* the tokens of doc equal to the text s
TextIdx(doc, s) == {i \in DOMAIN doc : doc[i] = Text(s)[1]}

\* a token that prints nothing: a wrapper or the empty text
PrintsNothing(tok) == tok.t \in Brackets \/ tok = Text("")[1]

\* the first token after token i that prints something, 0 if there is none
NextPrinted(doc, i) ==
    LET after == {j \in (i + 1)..Len(doc) : ~PrintsNothing(doc[j])}
    IN  IF after = {} THEN 0 ELSE CHOOSE j \in after : \A k \in after : j <= k

\* the last token before token i that prints something, 0 if there is none
LastPrinted(doc, i) ==
    LET before == {j \in 1..(i - 1) : ~PrintsNothing(doc[j])}
    IN  IF before = {} THEN 0 ELSE CHOOSE j \in before : \A k \in before : k <= j

\* the body of the function is the single statement Placeholder
IsStub(function) ==
    /\ Len(function.body) = 1
    /\ function.body[1].kind = "Expression"
    /\ function.body[1].expression.kind = "Placeholder"

\* where the signature of the function ends: the `()` of its arguments
SignatureEnd(doc) == CHOOSE i \in DOMAIN doc : doc[i] = Text("()")[1]

\* the offsets at which the statements of a body begin to print
BodyLeaves(function_body) ==
    {IF function_body[k].kind = "Assignment"
     THEN function_body[k].pattern.location.start
     ELSE function_body[k].location.start : k \in DOMAIN function_body}

\* C13: statement_fn prints nothing after the signature when the body of
\* the function is the single statement Placeholder; for every other body
\* it prints ` {` after the signature, then on new lines the statements of
\* the body, and last a newline and `}`.
C13_BodyOmittedIffStub ==
    (pc = "done" /\ input.definition.kind = "Function") =>
        LET function == input.definition
            sig == SignatureEnd(out)
        IN  IF IsStub(function)
            THEN /\ NextPrinted(out, sig) = 0
                 /\ TextIdx(out, " {") = {}
                 /\ TextIdx(out, "}") = {}
            ELSE /\ NextPrinted(out, sig) \in TextIdx(out, " {")
                 /\ out[NextPrinted(out, NextPrinted(out, sig))].t = "line"
                 /\ \A at \in BodyLeaves(function.body) :
                       \E i \in DOMAIN out :
                           /\ out[i].t = "leaf" /\ out[i].n = at
                           /\ NextPrinted(out, sig) < i
                 /\ \E close \in TextIdx(out, "}") :
                       /\ NextPrinted(out, close) = 0
                       /\ out[LastPrinted(out, close)].t = "line"

\* C13 witness: a deprecated external function without a body has been
\* lowered to its attributes and its signature
C13_Witness ==
    /\ pc = "done"
    /\ input.definition.kind = "Function"
    /\ IsStub(input.definition)
    /\ input.definition.external_erlang.is_some
    /\ input.definition.deprecation.kind = "Deprecated"
    /\ TextIdx(out, "@external(") # {}
    /\ NextPrinted(out, SignatureEnd(out)) = 0

\* the texts a definition begins with
DefinitionHeads == {"@deprecated(\"", "@external(", "fn ", "type ", "import "}

\* the first token of the definition itself
DefinitionStart(doc) ==
    CHOOSE i \in DOMAIN doc :
        /\ doc[i].t = "text" /\ doc[i].s \in DefinitionHeads
        /\ \A j \in 1..(i - 1) :
              ~(doc[j].t = "text" /\ doc[j].s \in DefinitionHeads)

TargetText(target) ==
    CASE target = "Erlang" -> "@target(erlang)"
      [] target = "JavaScript" -> "@target(javascript)"

\* the @target annotations printed
TargetIdx(doc) ==
    TextIdx(doc, "@target(erlang)") \cup TextIdx(doc, "@target(javascript)")

\* C16 as stated: a definition with a target is printed with exactly one
\* line @target(erlang) or @target(javascript), and nothing is printed
\* between the newline that ends it and the definition; a definition
\* without a target has no @target line.
C16_TargetDirectlyBeforeDefinition ==
    pc = "done" =>
        IF input.target = "None" THEN TargetIdx(out) = {}
        ELSE /\ TargetIdx(out) = TextIdx(out, TargetText(input.target))
             /\ \E i \in TargetIdx(out) :
                   /\ TargetIdx(out) = {i}
                   /\ out[NextPrinted(out, i)] = line[1]
                   /\ NextPrinted(out, NextPrinted(out, i))
                          = DefinitionStart(out)

\* C16: a definition with a target is printed with exactly one line
\* @target(erlang) or @target(javascript) before the definition; between
\* the newline that ends it and the definition stand the /// doc comments
\* of the definition, each on its line, and nothing else; the // comments
\* before the definition stand before the annotation; a definition without
\* a target has no @target line.
C16_TargetBeforeDocumentedDefinition ==
    pc = "done" =>
        IF input.target = "None" THEN TargetIdx(out) = {}
        ELSE /\ TargetIdx(out) = TextIdx(out, TargetText(input.target))
             /\ \E i \in TargetIdx(out) :
                   /\ TargetIdx(out) = {i}
                   /\ out[NextPrinted(out, i)] = line[1]
                   /\ i < DefinitionStart(out)
                   /\ \A j \in (NextPrinted(out, i) + 1)
                                  ..(DefinitionStart(out) - 1) :
                         \/ PrintsNothing(out[j])
                         \/ out[j].t = "comment" /\ out[j].s = "///"
                              /\ out[NextPrinted(out, j)] = line[1]
                         \/ out[j] = line[1] /\ out[LastPrinted(out, j)].t
                                                    = "comment"
                   /\ \A j \in DOMAIN out :
                         (out[j].t = "comment" /\ out[j].s = "//"
                          /\ out[j].n \in {8, 9}) => j < i
                   /\ Cardinality({j \in i..DefinitionStart(out) :
                                      out[j].t = "comment"})
                          = Len(SelectSeq(table.doc_comments,
                                          LAMBDA c : c.start <= 10))

\* C16 witness: a function for the JavaScript target with a doc comment and
\* a comment before it has been lowered
C16_Witness ==
    /\ pc = "done"
    /\ input.target = "JavaScript"
    /\ input.definition.kind = "Function"
    /\ table.doc_comments = <<Comment(8)>>
    /\ table.comments = <<Comment(9)>>
    /\ \E i \in TextIdx(out, "@target(javascript)") :
          /\ out[NextPrinted(out, NextPrinted(out, i))]
                 = CommentDoc("///", Comment(8).content)[1]
          /\ \E j \in 1..(i - 1) : out[j] = CommentDoc("//", Comment(9).content)[1]

\* the line @deprecated("message") is printed from token i on
DeprecatedLine(doc, i, message) ==
    /\ i + 3 <= Len(doc)
    /\ SubSeq(doc, i, i + 3) =
           Text("@deprecated(\"") \o Leaf(message, 0) \o Text("\")") \o line

\* the kinds of definition that carry a deprecation
Deprecable == {"TypeAlias", "CustomType", "Function"}

\* the definition is printed with its @deprecated line first, or with none
DefinitionDeprecation(doc, definition_) ==
    IF definition_.deprecation.kind = "Deprecated"
    THEN DeprecatedLine(doc, DefinitionStart(doc),
                        definition_.deprecation.message)
    ELSE \A i \in DOMAIN doc :
             ~DeprecatedLine(doc, i, Deprecated("old").message)

\* the constructors of a definition, none for the other kinds
ConstructorsOf(definition_) ==
    IF definition_.kind = "CustomType" THEN definition_.constructors ELSE <<>>

Unconsumed ==
    {comments[i].start : i \in DOMAIN comments}
    \cup {doc_comments[i].start : i \in DOMAIN doc_comments}
    \cup {empty_lines[i] : i \in DOMAIN empty_lines}

\* C18 as stated, for statement_fn: when the lowering of a function with a
\* body has returned, no comment, doc comment or blank-line offset at or
\* before the end of the function is left in the cursors.
C18_TriviaConsumedToNodeEnd ==
    (pc = "done" /\ input.definition.kind = "Function"
                 /\ ~IsStub(input.definition)) =>
        \A offset \in Unconsumed : offset > input.definition.end_position

-----------------------------------------------------------------------------
(* pretty(writer, src, path) *)

\* Formatter::module(module), the loop over module.definitions
RECURSIVE module_loop(_, _, _, _)
module_loop(self, definitions, docs, was_import) ==
    IF definitions = <<>> THEN [docs |-> docs, self |-> self]
    ELSE Then(targeted_definition(self, Head(definitions)), LAMBDA r :
         module_loop(r.self, Tail(definitions),
                     docs \o separator(docs, was_import,
                                       Head(definitions).definition.kind
                                           = "Import")
                          \o <<r.doc>>,
                     Head(definitions).definition.kind = "Import"))

\* Formatter::module(module)
module(self, definitions) ==
    Then(module_loop(self, definitions, <<>>, FALSE), LAMBDA l :
    module_end(l.self, l.docs))

\* Result<(), Error>
Ok == [is_ok |-> TRUE]
Err(error) == [is_ok |-> FALSE, error |-> error]

\* mutant of ErrorParse: the error carries the path alone
ErrorParse_PathOnly(path, src, error) ==
    [kind |-> "Parse", path |-> path, src |-> "", error |-> ""]

\* the closure of map_err in pretty: Error::Parse { path, src, error }
ErrorParse(path, src, error) ==
    [kind |-> "Parse", path |-> path, src |-> src, error |-> error]

-----------------------------------------------------------------------------
(* SpecPretty: pretty() on a source.  parse_module is outside the           *)
(* formatter: its outcome for the source, a module with its trivia or a     *)
(* parse error, is part of the input.  The module holds one function at     *)
(* offset 10 whose body stands at 14; a comment may stand before either.    *)
(* The bodies include the trees the parser never builds and the lowering    *)
(* guards against with panic! and unreachable!.                             *)

Hole14 == CallArg("", Var(CAPTURE_VARIABLE, 16), 16)

CallAt14 == Call(Var("g", 14), <<Hole14>>, 18)

\* bodies that lower to a document
SoundBodies ==
    {<<Expression(Placeholder(14))>>,
     <<Expression(Var("x", 14))>>,
     <<Expression(Call(Var("g", 14), <<CallArg("", Var("a", 16), 16)>>, 18))>>,
     <<Expression(Capture(<<Expression(CallAt14)>>, 14, 18))>>,
     <<Expression(PipeLine(<<Var("x", 12),
                             Capture(<<Expression(CallAt14)>>, 14, 18)>>))>>,
     <<Expression(PipeLine(<<Var("x", 12),
                             Capture(<<Expression(CallAt14),
                                       Expression(Var("y", 17))>>, 14, 18)>>))>>}

\* bodies with a tree the parser never builds
UnsoundBodies ==
    {<<Expression(Var("x", 12)), Expression(Placeholder(14))>>,
     <<Expression(Call(Placeholder(14), <<>>, 16))>>,
     <<Expression(Call(Var("g", 12),
                       <<CallArg("", Placeholder(14), 14)>>, 16))>>,
     <<Expression(BitArray(<<BitArraySegment(Placeholder(14))>>, 12, 16))>>,
     <<Expression(List(<<Placeholder(14)>>, NoTail, 12, 16))>>,
     <<Expression(PipeLine(<<Var("x", 12),
                             Capture(<<Expression(Var("y", 14))>>, 14, 15)>>))>>,
     <<Expression(PipeLine(<<Var("x", 12),
                             Capture(<<Assignment(Variable("y", 15),
                                                  CallAt14, 14)>>,
                                     14, 18)>>))>>,
     <<Expression(Capture(<<Expression(Var("y", 14))>>, 14, 15))>>,
     <<Expression(Capture(<<Expression(CallAt14),
                            Expression(Var("y", 17))>>, 14, 18))>>,
     <<Expression(Capture(<<>>, 14, 15))>>}

ParsedModules ==
    {<<TargetedDefinition(Function("f", function_body, 10, 19))>> :
        function_body \in SoundBodies \cup UnsoundBodies}

Paths == {"a.gleam", "b.gleam"}

Sources == {"src1", "src2"}

ParseErrors == {"UnexpectedEof", "UnexpectedToken"}

\* what parse_module(src) returns
ParseResults ==
    {[is_ok |-> FALSE, error |-> error] : error \in ParseErrors}
    \cup {[is_ok |-> TRUE, module |-> module_, extra |-> extra] :
             module_ \in ParsedModules, extra \in TriviaOver({9, 13}, 1)}

\* no Intermediate and no Formatter have been built
NoTable == [comments |-> <<>>, doc_comments |-> <<>>,
            module_comments |-> <<>>, empty_lines |-> <<>>, built |-> FALSE]

\* pretty has not returned; nothing was written to the writer
NoResult == [returned |-> FALSE, writer |-> <<>>]

Returned(result, written) ==
    [returned |-> TRUE, result |-> result, writer |-> written]

InitPretty ==
    /\ input \in {[path |-> path, src |-> src, parsed |-> parsed] :
                     path \in Paths, src \in Sources, parsed \in ParseResults}
    /\ pc = "parse_module"
    /\ table = NoTable
    /\ comments = <<>>
    /\ doc_comments = <<>>
    /\ module_comments = <<>>
    /\ empty_lines = <<>>
    /\ documents = <<>>
    /\ previous_was_import = FALSE
    /\ out = NoResult
    /\ last = NoCall
    /\ seen = NoneSeen

\* let parsed = parse_module(src).map_err(...)?
ParseModule ==
    /\ pc = "parse_module"
    /\ IF input.parsed.is_ok
       THEN /\ pc' = "with_comments"
            /\ out' = out
       ELSE /\ pc' = "returned"
            /\ out' = Returned(Err(ErrorParse(input.path, input.src,
                                            input.parsed.error)), <<>>)
    /\ UNCHANGED <<table, comments, doc_comments, module_comments, empty_lines,
                   input, documents, previous_was_import, last, seen>>

\* Intermediate::from_extra(&parsed.extra, src) and Formatter::with_comments
WithComments ==
    /\ pc = "with_comments"
    /\ table' = from_extra(input.parsed.extra)
    /\ comments' = table'.comments
    /\ doc_comments' = table'.doc_comments
    /\ module_comments' = table'.module_comments
    /\ empty_lines' = table'.empty_lines
    /\ pc' = "module"
    /\ UNCHANGED <<input, documents, previous_was_import, out, last, seen>>

\* .module(&parsed.module): the document it returns is kept in `documents`;
\* a panic! or unreachable! ends the process, and pretty does not return
LowerModule ==
    /\ pc = "module"
    /\ LET r == module(Self, input.parsed.module)
       IN  IF Aborted(r.doc)
           THEN /\ pc' = "panicked"
                /\ UNCHANGED <<documents, comments, doc_comments,
                               module_comments, empty_lines>>
           ELSE /\ pc' = "pretty_print"
                /\ documents' = <<r.doc>>
                /\ Store(r.self)
    /\ UNCHANGED <<table, input, previous_was_import, out, last, seen>>

\* .pretty_print(80, writer), under one of the layouts
PrettyPrintModule ==
    /\ pc = "pretty_print"
    /\ LET ends == GroupEnds(documents[1])
       IN  \E broken \in Layouts(documents[1], ends) :
               out' = Returned(Ok, pretty_print(documents[1], ends,
                                                broken).printed)
    /\ pc' = "returned"
    /\ UNCHANGED <<table, comments, doc_comments, module_comments, empty_lines,
                   input, documents, previous_was_import, last, seen>>

NextPretty == ParseModule \/ WithComments \/ LowerModule \/ PrettyPrintModule

SpecPretty == InitPretty /\ [][NextPretty]_vars

-----------------------------------------------------------------------------
(* Properties of pretty (SpecPretty) *)

\* the statement is an expression that is a call
IsCallStatement(stmt) ==
    stmt.kind = "Expression" /\ stmt.expression.kind = "Call"

\* the expression holds, where the lowering visits it, a Placeholder or a
\* capture whose body the parser never builds
RECURSIVE Unsound(_)
UnsoundStatement(stmt) ==
    CASE stmt.kind = "Expression" -> Unsound(stmt.expression)
      [] stmt.kind = "Assignment" -> Unsound(stmt.value)
      [] OTHER -> FALSE

\* a capture that is a stage of a pipeline: its first statement is lowered
UnsoundPipeCapture(e) ==
    \/ e.body = <<>>
    \/ ~IsCallStatement(e.body[1])
    \/ Unsound(e.body[1].expression)

\* a capture anywhere else
UnsoundCapture(e) ==
    \/ Len(e.body) # 1
    \/ ~IsCallStatement(e.body[1])
    \/ Unsound(e.body[1].expression)

Unsound(e) ==
    CASE e.kind = "Placeholder" -> TRUE
      [] e.kind = "Call" ->
           \/ Unsound(e.fun)
           \/ \E k \in DOMAIN e.arguments : Unsound(e.arguments[k].value)
      [] e.kind = "BitArray" ->
           \E k \in DOMAIN e.segments : Unsound(e.segments[k].value)
      [] e.kind = "List" ->
           \E k \in DOMAIN e.elements : Unsound(e.elements[k])
      [] e.kind = "PipeLine" ->
           \/ Unsound(e.expressions[1])
           \/ \E k \in 2..Len(e.expressions) :
                 IF e.expressions[k].kind = "Fn"
                 THEN UnsoundPipeCapture(e.expressions[k])
                 ELSE Unsound(e.expressions[k])
      [] e.kind = "Fn" -> UnsoundCapture(e)
      [] OTHER -> FALSE

\* the function holds such an expression in a body that is lowered
UnsoundFunction(function) ==
    /\ ~IsStub(function)
    /\ \E k \in DOMAIN function.body : UnsoundStatement(function.body[k])

\* C14: once the lowering of a parsed module is over, the process has
\* ended in a panic exactly if the module holds a Placeholder that expr,
\* call or bit_array_segment_expr lowers, a pipeline capture whose body is
\* not a call, or another capture whose body is not exactly one call
\* statement; and then pretty has not returned: there is no document, no
\* Error value, and nothing was written.
C14_UnsoundTreesPanic ==
    (input.parsed.is_ok /\ pc \in {"panicked", "pretty_print", "returned"}) =>
        /\ (pc = "panicked")
               <=> UnsoundFunction(input.parsed.module[1].definition)
        /\ pc = "panicked" => (out = NoResult /\ documents = <<>>)

\* C14 witness: the lowering of x |> fn(_capture) { y } has panicked
C14_Witness ==
    /\ pc = "panicked"
    /\ input.parsed.module[1].definition.body =
           <<Expression(PipeLine(<<Var("x", 12),
                                   Capture(<<Expression(Var("y", 14))>>,
                                           14, 15)>>))>>
    /\ out = NoResult

\* C15: when parse_module fails, pretty returns Error::Parse with the path
\* it was given, the source unchanged and the parse error; no Intermediate
\* and no Formatter are built, module() does not run, and nothing is
\* written to the writer.
C15_ParseErrorReturned ==
    ~input.parsed.is_ok =>
        /\ pc \in {"parse_module", "returned"}
        /\ table = NoTable
        /\ documents = <<>>
        /\ out.writer = <<>>
        /\ pc = "returned" =>
              /\ out.returned
              /\ ~out.result.is_ok
              /\ out.result.error.kind = "Parse"
              /\ out.result.error.path = input.path
              /\ out.result.error.src = input.src
              /\ out.result.error.error = input.parsed.error

\* C15 witness: pretty has returned the parse error UnexpectedEof for the
\* source src2 of b.gleam
C15_Witness ==
    /\ pc = "returned"
    /\ ~input.parsed.is_ok
    /\ out.result = Err(ErrorParse("b.gleam", "src2", "UnexpectedEof"))

-----------------------------------------------------------------------------
(* SpecRun: runs of comments and blank lines.  A Formatter over a trivia    *)
(* table of comments, doc comments and blank lines at the offsets           *)
(* 1..MaxRunOffset, on which the operations that pop a run are called in    *)
(* the order of the source, with limits that do not decrease: expr on a     *)
(* variable, doc_comments and pop_empty_lines, and at last the end of       *)
(* module(), after which the Formatter is dropped.                          *)

\* the largest offset of a piece of trivia in a run
MaxRunOffset == 5

RunKinds == {"none", "comment", "doc", "empty"}

RunLimits == 1..MaxRunOffset

InitRun ==
    /\ \E kinds \in [1..MaxRunOffset -> RunKinds] : table = from_extra(kinds)
    /\ comments = table.comments
    /\ doc_comments = table.doc_comments
    /\ module_comments = table.module_comments
    /\ empty_lines = table.empty_lines
    /\ input = <<>>
    /\ pc = "run"
    /\ documents = <<>>
    /\ previous_was_import = FALSE
    /\ out = <<>>
    /\ last = NoCall
    /\ seen = NoneSeen

\* the record of a pop: the operation, its limit, what it returned and the
\* Formatter it was called on
Popped(op, limit, popped, removed) ==
    last' = [op |-> op, limit |-> limit, popped |-> popped,
             removed |-> removed, earlier |-> -1, before |-> Self]

\* expr() on a variable that starts at limit: the comments before it are
\* popped and attached in front of it by commented()
ExprCommented(limit) ==
    /\ pc # "module_end"
    /\ limit >= last.limit
    /\ LET r == expr(Self, Var("x", limit))
       IN  /\ out' = r.doc
           /\ Store(r.self)
    /\ Popped("pop_comments", limit, pop_comments(Self, limit).ret, FALSE)
    /\ pc' = "expr"
    /\ UNCHANGED <<table, input, documents, previous_was_import, seen>>

\* the end of module() for a module without definitions: the comments left
\* are popped and printed by printed_comments(.., false)
ModuleEndComments ==
    /\ pc # "module_end"
    /\ LET r == module_end(Self, <<>>)
       IN  /\ out' = r.doc
           /\ Store(r.self)
    /\ Popped("pop_comments", U32Max, pop_comments(Self, U32Max).ret, FALSE)
    /\ pc' = "module_end"
    /\ UNCHANGED <<table, input, documents, previous_was_import, seen>>

\* Formatter::doc_comments(limit)
DocComments(limit) ==
    /\ pc # "module_end"
    /\ limit >= last.limit
    /\ LET r == doc_comments_(Self, limit)
       IN  /\ out' = r.doc
           /\ Store(r.self)
    /\ Popped("pop_doc_comments", limit, pop_doc_comments(Self, limit).ret,
              FALSE)
    /\ pc' = "doc_comments"
    /\ UNCHANGED <<table, input, documents, previous_was_import, seen>>

\* Formatter::pop_empty_lines(limit), which returns no document
EmptyLines(limit) ==
    /\ pc # "module_end"
    /\ limit >= last.limit
    /\ LET r == pop_empty_lines(Self, limit)
       IN  /\ Store(r.self)
           /\ Popped("pop_empty_lines", limit, <<>>, r.ret)
    /\ out' = nil
    /\ pc' = "pop_empty_lines"
    /\ UNCHANGED <<table, input, documents, previous_was_import, seen>>

NextRun ==
    \/ \E limit \in RunLimits : ExprCommented(limit)
    \/ ModuleEndComments
    \/ \E limit \in RunLimits : DocComments(limit)
    \/ \E limit \in RunLimits : EmptyLines(limit)

SpecRun == InitRun /\ [][NextRun]_vars

-----------------------------------------------------------------------------
(* Properties of the runs (SpecRun) *)

\* the number of blank-line markers that end a popped run
RECURSIVE TrailingMarkers(_)
TrailingMarkers(popped) ==
    IF popped = <<>> \/ popped[Len(popped)].is_some THEN 0
    ELSE 1 + TrailingMarkers(TakeFirst(popped, Len(popped) - 1))

\* the `//` comments of a document
LineComments(doc) == {i \in DOMAIN doc : doc[i].t = "comment" /\ doc[i].s = "//"}

\* a blank line is printed directly after the last `//` comment
BlankAfterLastComment(doc) ==
    \E i \in LineComments(doc) :
        /\ \A j \in LineComments(doc) : j <= i
        /\ i < Len(doc)
        /\ doc[i + 1] = lines(2)[1]

\* C21 as stated: the blank line that ends a popped run is printed after
\* the comments of the end-of-module block and is not printed after the
\* comments attached in front of an expression.
C21_BlankKeptAtModuleEnd ==
    TrailingMarkers(last.popped) > 0 =>
        /\ pc = "module_end" => BlankAfterLastComment(out)
        /\ pc = "expr" => ~BlankAfterLastComment(out)

\* C21: the blank line that ends a popped run is printed between the
\* comments and the expression they are attached to by commented(), and is
\* not printed after the comments of the end-of-module block, which ends
\* in a blank line only when two or more blank-line markers end the run.
C21_BlankKeptBeforeConstruct ==
    /\ pc = "expr" =>
          (BlankAfterLastComment(out) <=> TrailingMarkers(last.popped) > 0)
    /\ pc = "module_end" =>
          (BlankAfterLastComment(out) <=> TrailingMarkers(last.popped) > 1)

\* C21 witness: a comment followed by one blank line has been attached in
\* front of an expression, with the blank line between the two
C21_Witness ==
    /\ pc = "expr"
    /\ last.popped = <<Some(1), None>>
    /\ out = force_break(CommentDoc("//", 1) \o lines(2))
             \o group(Leaf("x", last.limit))

\* C22: pop_empty_lines(limit) returns true exactly when the blank-line
\* cursor holds an offset <= limit, removes exactly the offsets <= limit
\* from it, and leaves the comment, doc-comment and module-comment cursors
\* as they were.
C22_PopEmptyLinesFrame ==
    (pc = "pop_empty_lines" /\ last.op = "pop_empty_lines") =>
        LET b == last.before
        IN  /\ last.removed
                = (\E i \in DOMAIN b.empty_lines :
                       b.empty_lines[i] <= last.limit)
            /\ empty_lines = OffsetsAfter(b.empty_lines, last.limit)
            /\ comments = b.comments
            /\ doc_comments = b.doc_comments
            /\ module_comments = b.module_comments

\* C22 witness: pop_empty_lines has removed one of two blank lines, with a
\* comment before its limit left in the comment cursor
C22_Witness ==
    /\ pc = "pop_empty_lines"
    /\ last.removed
    /\ last.limit = 3
    /\ last.before.empty_lines = <<2, 4>>
    /\ empty_lines = <<4>>
    /\ comments = <<Comment(1)>>

\* C23: pop_doc_comments(limit) yields no blank-line marker, so that
\* doc_comments never reaches its unreachable! branch; it removes every
\* blank-line offset <= limit from the blank-line cursor all the same, and
\* leaves the comment cursor as it was.
C23_DocCommentsWithoutMarkers ==
    (pc = "doc_comments" /\ last.op = "pop_doc_comments") =>
        LET b == last.before
        IN  /\ \A i \in DOMAIN last.popped : last.popped[i].is_some
            /\ ~Aborted(out)
            /\ empty_lines = OffsetsAfter(b.empty_lines, last.limit)
            /\ comments = b.comments

\* C23 witness: doc_comments has popped two doc comments with a blank line
\* between them, and a comment before the limit stays in its cursor
C23_Witness ==
    /\ pc = "doc_comments"
    /\ last.limit = 4
    /\ last.before.empty_lines = <<3>>
    /\ last.before.comments = <<Comment(1)>>
    /\ last.popped = <<Some(2), Some(4)>>
    /\ empty_lines = <<>>
    /\ comments = <<Comment(1)>>

\* the comment that stands before item i of a popped run, 0 for none
RECURSIVE CommentBefore(_, _)
CommentBefore(popped, i) ==
    IF i <= 1 THEN 0
    ELSE IF popped[i - 1].is_some THEN popped[i - 1].content
    ELSE CommentBefore(popped, i - 1)

\* the comment that stands after item i of a popped run, none: above all
RECURSIVE CommentAfter(_, _)
CommentAfter(popped, i) ==
    IF i >= Len(popped) THEN U32Max
    ELSE IF popped[i + 1].is_some THEN popped[i + 1].content
    ELSE CommentAfter(popped, i + 1)

\* C24: the sequence pop_comments(limit) returns lists the comments it
\* removed in offset order, every blank-line marker standing for a blank
\* line between the comments around it; it does not begin with a marker and
\* holds no two adjacent markers.
C24_RunAlternates ==
    (pc \in {"expr", "module_end"} /\ last.op = "pop_comments") =>
        LET popped == last.popped
            b == last.before
        IN  /\ SomeContents(popped)
                   = Contents(StartsUpTo(b.comments, last.limit))
            /\ \A i \in DOMAIN popped :
                  ~popped[i].is_some =>
                      \E k \in DOMAIN b.empty_lines :
                          /\ b.empty_lines[k] <= last.limit
                          /\ CommentBefore(popped, i) < b.empty_lines[k]
                          /\ b.empty_lines[k] < CommentAfter(popped, i)
            /\ popped # <<>> => popped[1].is_some
            /\ \A i \in DOMAIN popped :
                  i < Len(popped) => popped[i].is_some \/ popped[i + 1].is_some

\* the same without the alternation: what holds of every popped run
C24_RunMerged ==
    (pc \in {"expr", "module_end"} /\ last.op = "pop_comments") =>
        LET popped == last.popped
            b == last.before
        IN  /\ SomeContents(popped)
                   = Contents(StartsUpTo(b.comments, last.limit))
            /\ \A i \in DOMAIN popped :
                  ~popped[i].is_some =>
                      \E k \in DOMAIN b.empty_lines :
                          /\ b.empty_lines[k] <= last.limit
                          /\ CommentBefore(popped, i) < b.empty_lines[k]
                          /\ b.empty_lines[k] < CommentAfter(popped, i)
            /\ popped # <<>> => popped[1].is_some

\* the blank-line offsets that lie between the offsets a and b
BlankOffsetsBetween(els, a, b) == {k \in DOMAIN els : a < els[k] /\ els[k] < b}

\* C25: printed_comments puts between two consecutive comments of a run
\* a single newline when no blank-line offset lies between them and one
\* blank line, never more, when one or more do, adjacent or not.
C25_OneBlankLineBetweenComments ==
    (pc \in {"expr", "module_end"} /\ last.op = "pop_comments") =>
        \A i, j \in LineComments(out) :
            (i < j /\ \A k \in LineComments(out) : ~(i < k /\ k < j)) =>
                /\ j = i + 2
                /\ out[i + 1] =
                       IF BlankOffsetsBetween(last.before.empty_lines,
                                       out[i].n, out[j].n) = {}
                       THEN line[1] ELSE lines(2)[1]

\* C25 witness: two comments with two blank lines at the offsets 2 and 4
\* between them have been printed one blank line apart
C25_Witness ==
    /\ pc = "module_end"
    /\ last.before.comments = <<Comment(1), Comment(5)>>
    /\ last.before.empty_lines = <<2, 4>>
    /\ last.popped = <<Some(1), None, None, Some(5)>>
    /\ out = CommentDoc("//", 1) \o lines(2) \o CommentDoc("//", 5) \o line

-----------------------------------------------------------------------------
(* SpecCanonical: the canonical form of the literals.  int() is applied to  *)
(* an integer literal, float() to a float literal, and then each to the     *)
(* text it printed.                                                         *)

InitCanonical == InitLiteral \/ InitFloat

\* the literal is a float: it has a dot
IsFloat(value) == \E i \in DOMAIN value : value[i] = "."

\* Formatter::int(value) on the text int printed
IntAgain ==
    /\ pc = "done"
    /\ ~IsFloat(input)
    /\ documents' = <<int(out)>>
    /\ pc' = "again"
    /\ UNCHANGED <<table, comments, doc_comments, module_comments, empty_lines,
                   input, out, previous_was_import, last, seen>>

\* Formatter::float(value) on the text float printed
FloatAgain ==
    /\ pc = "done"
    /\ IsFloat(input)
    /\ documents' = <<float(out)>>
    /\ pc' = "again"
    /\ UNCHANGED <<table, comments, doc_comments, module_comments, empty_lines,
                   input, out, previous_was_import, last, seen>>

NextCanonical == FormatInt \/ FormatFloat \/ IntAgain \/ FloatAgain

SpecCanonical == InitCanonical /\ [][NextCanonical]_vars

-----------------------------------------------------------------------------
(* Properties of the canonical form (SpecCanonical) *)

\* C27: int applied to the text int printed, and float applied to the text
\* float printed, return that text unchanged, for decimal, negative,
\* prefixed, underscored and exponent-carrying literals.
C27_CanonicalIdempotent ==
    pc = "again" => documents = <<out>>

\* C27 witness: 1_000.500e10 was printed as 1000.5e10, and float printed
\* that text again as it is
C27_Witness ==
    /\ pc = "again"
    /\ input = <<"1", "_", "0", "0", "0", ".", "5", "0", "0", "e", "1", "0">>
    /\ out = <<"1", "0", "0", "0", ".", "5", "e", "1", "0">>
    /\ documents = <<out>>

\* a literal without its underscores
WithoutUnderscores(value) == SelectSeq(value, LAMBDA ch : ch # "_")

\* a run of n zeros
Zeros(n) == [i \in 1..n |-> "0"]

\* C28: the text int prints is the literal but for underscores, and holds
\* none when the decimal literal has fewer than five digits; the text
\* float prints has the integer part of the literal but for underscores,
\* its fraction but for zeros at the end, and its exponent.
C28_NumberUnchanged ==
    pc = "done" =>
        IF IsFloat(input)
        THEN /\ WithoutUnderscores(SplitPart(out, ".", 0))
                    = WithoutUnderscores(SplitPart(input, ".", 0))
             /\ ExponentOf(out) = ExponentOf(input)
             /\ \E a, b \in 0..MaxFraction :
                    FractionOf(out) \o Zeros(a) = FractionOf(input) \o Zeros(b)
        ELSE /\ WithoutUnderscores(out) = WithoutUnderscores(input)
             /\ (~IsPrefixed(input) /\ Len(SignificantDigits(input)) < 5)
                => out = WithoutUnderscores(input)

\* C28 witness: the four-digit literal 1_2_34 was printed without its
\* underscores
C28_Witness ==
    /\ pc = "done"
    /\ input = <<"1", "_", "2", "_", "3", "4">>
    /\ out = <<"1", "2", "3", "4">>

-----------------------------------------------------------------------------
(* SpecImport: one import with unqualified items is lowered by             *)
(* Formatter::definition, then the same import with its items listed in    *)
(* another order.  A name is the sequence of its bytes.                    *)

MaxUnqualified == 2

\* a, ab
ValueNames == {<<97>>, <<97, 98>>}
\* A, B
TypeNames == {<<65>>, <<66>>}
\* no alias, or `as x`
Aliases == {NoName, Some(<<120>>)}

UnqualifiedValues ==
    {UnqualifiedImport(name, as_name) : name \in ValueNames, as_name \in Aliases}
UnqualifiedTypes == {UnqualifiedImport(name, NoName) : name \in TypeNames}

ItemLists(items) ==
    UNION {[1..n -> items] : n \in 0..MaxUnqualified}

Imports ==
    {[Import("m", 10) EXCEPT !.unqualified_types = types,
                             !.unqualified_values = values,
                             !.as_name = as_name] :
        types \in ItemLists(UnqualifiedTypes),
        values \in ItemLists(UnqualifiedValues),
        as_name \in Aliases}

InitImport ==
    /\ \E d \in Imports : input = <<d>>
    /\ table = from_extra(<<>>)
    /\ comments = <<>>
    /\ doc_comments = <<>>
    /\ module_comments = <<>>
    /\ empty_lines = <<>>
    /\ pc = "definition"
    /\ documents = <<>>
    /\ previous_was_import = FALSE
    /\ out = <<>>
    /\ last = NoCall
    /\ seen = NoneSeen

\* Formatter::definition(input[1])
LowerImport ==
    /\ pc = "definition"
    /\ documents' = <<definition(Self, input[1]).doc>>
    /\ pc' = "lowered"
    /\ UNCHANGED <<table, comments, doc_comments, module_comments,
                   empty_lines, input, previous_was_import, out, last, seen>>

Reordered(items, p) == [i \in DOMAIN items |-> items[p[i]]]

\* Formatter::definition of an import that lists the same items in another
\* source order
LowerReordered ==
    /\ pc = "lowered"
    /\ \E p \in Permutations(DOMAIN input[1].unqualified_types),
          q \in Permutations(DOMAIN input[1].unqualified_values) :
          LET d == [input[1] EXCEPT
                      !.unqualified_types = Reordered(@, p),
                      !.unqualified_values = Reordered(@, q)]
          IN  /\ input' = <<input[1], d>>
              /\ documents' = Append(documents, definition(Self, d).doc)
    /\ pc' = "reordered"
    /\ UNCHANGED <<table, comments, doc_comments, module_comments,
                   empty_lines, previous_was_import, out, last, seen>>

NextImport == LowerImport \/ LowerReordered

SpecImport == InitImport /\ [][NextImport]_vars

\* the end of the item list of an import's document: its `}`, or 0
ItemsEnd(doc) ==
    IF \E j \in DOMAIN doc : doc[j] = Tok("text", "}", 0)
    THEN CHOOSE j \in DOMAIN doc : doc[j] = Tok("text", "}", 0)
    ELSE 0

IsTypeItem(doc, i) == doc[i - 1] = Tok("text", "type ", 0)

\* the items of a document in printing order, from position i to `}`: type
\* or value, name, alias; a string that follows ` as ` is an alias
RECURSIVE PrintedItems(_, _)
PrintedItems(doc, i) ==
    IF i >= ItemsEnd(doc) THEN <<>>
    ELSE IF doc[i].t = "string" /\ doc[i - 1] # Tok("text", " as ", 0)
    THEN <<[type |-> IsTypeItem(doc, i),
            item |-> UnqualifiedImport(
                         doc[i].chars,
                         IF doc[i + 1] = Tok("text", " as ", 0)
                         THEN Some(doc[i + 2].chars) ELSE NoName)]>>
         \o PrintedItems(doc, i + 1)
    ELSE PrintedItems(doc, i + 1)

AsBag(items) ==
    [e \in {items[i] : i \in DOMAIN items} |->
        Cardinality({i \in DOMAIN items : items[i] = e})]

\* every item of the import is printed once, the types first, each group
\* ascending by name
TypesThenValuesSorted(d, doc) ==
    LET printed == PrintedItems(doc, 2)
        types == SelectSeq(printed, LAMBDA e : e.type)
        values == SelectSeq(printed, LAMBDA e : ~e.type)
    IN  /\ printed = types \o values
        /\ AsBag([i \in DOMAIN types |-> types[i].item])
             = AsBag(d.unqualified_types)
        /\ AsBag([i \in DOMAIN values |-> values[i].item])
             = AsBag(d.unqualified_values)
        /\ \A i \in 1..Len(printed) - 1 :
              printed[i].type = printed[i + 1].type
                  => cmp(printed[i].item.name, printed[i + 1].item.name)
                         # "Greater"

DistinctNames(items) ==
    \A i, j \in DOMAIN items : items[i].name = items[j].name => i = j

\* C29, as stated: the unqualified items of an import are printed with every
\* type, prefixed `type `, before every value, each group ascending by name,
\* and two imports that list the same items in different source orders print
\* identically
C29_ImportOrderIndependent ==
    /\ \A k \in DOMAIN documents : TypesThenValuesSorted(input[k], documents[k])
    /\ pc = "reordered" => documents[1] = documents[2]

\* C29: the unqualified items of an import are printed with every type,
\* prefixed `type `, before every value, each group ascending by name; two
\* imports that list the same items in different source orders print
\* identically when no name is listed twice in a group (the sort is stable:
\* items of equal name keep their source order)
C29_ImportItemsSorted ==
    /\ \A k \in DOMAIN documents : TypesThenValuesSorted(input[k], documents[k])
    /\ pc = "reordered"
       /\ DistinctNames(input[1].unqualified_types)
       /\ DistinctNames(input[1].unqualified_values)
       => documents[1] = documents[2]

\* import m.{A, ab, a as x} and import m.{A, a as x, ab} are both printed
\* import m.{type A, a as x, ab}
C29_Witness ==
    /\ pc = "reordered"
    /\ input[1].unqualified_values
         = <<UnqualifiedImport(<<97, 98>>, NoName),
             UnqualifiedImport(<<97>>, Some(<<120>>))>>
    /\ input[2].unqualified_values
         = <<UnqualifiedImport(<<97>>, Some(<<120>>)),
             UnqualifiedImport(<<97, 98>>, NoName)>>
    /\ input[1].unqualified_types = <<UnqualifiedImport(<<65>>, NoName)>>
    /\ documents[1] = documents[2]
    /\ PrintedItems(documents[1], 2)[Len(input[1].unqualified_types) + 1].item
         = UnqualifiedImport(<<97>>, Some(<<120>>))

-----------------------------------------------------------------------------
(* SpecCall: expr() on a call f(...) at offset 0.  The sole or first       *)
(* argument starts at offset 4 when it has a label (`l: ` at 4, the value  *)
(* at 8) and at offset 8 when it has none.  Comments may stand after the   *)
(* `(` (offset 2), after the label or further in front of the value (6),   *)
(* and inside the value (9, 11).                                           *)

ArgValues ==
    {List(<<IntLit(<<"1">>, 10)>>, NoTail, 8, 13),
     List(<<IntLit(<<"1">>, 10), IntLit(<<"2">>, 12)>>, NoTail, 8, 13),
     Call(Var("g", 8), <<Arg("a", 10)>>, 13),
     Var("x", 8)}

ArgLabels == {"", "l"}

ArgStart(label) == IF label = "" THEN 8 ELSE 4

Calls ==
    {Call(Var("f", 0),
          <<CallArg(label, value, ArgStart(label))>> \o more, 20) :
        label \in ArgLabels, value \in ArgValues,
        more \in {<<>>, <<Arg("b", 15)>>}}

CallSlots == {2, 6, 9, 11}

InitCall ==
    /\ input \in Calls
    /\ \E kinds \in TriviaOver(CallSlots, MaxTrivia) : table = from_extra(kinds)
    /\ comments = table.comments
    /\ doc_comments = table.doc_comments
    /\ module_comments = table.module_comments
    /\ empty_lines = table.empty_lines
    /\ pc = "expr"
    /\ documents = <<>>
    /\ previous_was_import = FALSE
    /\ out = <<>>
    /\ last = NoCall
    /\ seen = NoneSeen

\* Formatter::expr(input), input a call
LowerCall ==
    /\ pc = "expr"
    /\ LET r == expr(Self, input)
       IN  /\ out' = r.doc
           /\ Store(r.self)
    /\ pc' = "done"
    /\ UNCHANGED <<table, input, documents, previous_was_import, last, seen>>

NextCall == LowerCall

SpecCall == InitCall /\ [][NextCall]_vars

\* the position of the `(` of the hugged form f(arg): the text "(" right
\* after the name of the function; 0 when the arguments are wrapped
HugParen(doc) ==
    IF \E i \in 1..Len(doc) - 1 :
          doc[i] = Tok("leaf", "f", 0) /\ doc[i + 1] = Tok("text", "(", 0)
    THEN 1 + CHOOSE i \in 1..Len(doc) - 1 :
                 doc[i] = Tok("leaf", "f", 0) /\ doc[i + 1] = Tok("text", "(", 0)
    ELSE 0

\* the position where the value of the first argument begins: its `[`, or
\* the name of the function it calls
IsValueStart(tok) ==
    \/ tok.t = "break" /\ tok.s = "["
    \/ tok = Tok("leaf", "g", 8)

ValueStart(doc) ==
    CHOOSE i \in DOMAIN doc :
        /\ IsValueStart(doc[i])
        /\ \A j \in 1..i - 1 : ~IsValueStart(doc[j])

CommentsInHug(doc) ==
    {i \in DOMAIN doc :
        /\ doc[i].t = "comment"
        /\ HugParen(doc) < i
        /\ i < ValueStart(doc)}

\* C30, as stated: when call prints its sole breakable argument hugged,
\* f(arg), no comment is printed between the `(` and the value of the
\* argument, with or without a label
C30_NoCommentInHug ==
    pc = "done" /\ HugParen(out) # 0 => CommentsInHug(out) = {}

\* C30, without a label: the hugged form of an unlabelled argument has no
\* comment between the `(` and the value
C30_NoCommentInUnlabelledHug ==
    pc = "done" /\ HugParen(out) # 0 /\ input.arguments[1].label = ""
        => CommentsInHug(out) = {}

\* f(l: // c
\*   [1]): the comment after the label is printed inside the hugged form
C30_CommentAfterLabel ==
    /\ pc = "done"
    /\ input.arguments[1].label = "l"
    /\ table.comments = <<Comment(6)>>
    /\ HugParen(out) # 0
    /\ CommentsInHug(out) # {}


=============================================================================
